---- MODULE Spec2Model ----
(***************************************************************************)
(* A model of the volumetric scalar field engine of H.U.R.B.A.N. selector  *)
(* (src/src/mesh/voxel_cloud.rs, src/src/math.rs).                         *)
(*                                                                         *)
(* Conventions.                                                            *)
(*  - Point3 / Vector3 are 3-tuples <<x, y, z>>.                           *)
(*  - An f32 / f64 number is an exact rational <<n, d>> in lowest terms    *)
(*    with d > 0.  Rounding error of the floating point unit is not        *)
(*    modelled; -0.0 and 0.0 compare equal in Rust and are both <<0, 1>>.  *)
(*  - Option<f32> is None == <<>> or the rational itself (Some).           *)
(*  - Option<usize> is NoIndex == -1 or the index.  Indices are 0-based as *)
(*    in the source; the voxel at index i is voxels[i + 1].                *)
(*  - Voxel dimensions are positive integers (cartesian units).            *)
(***************************************************************************)
EXTENDS Integers, Sequences, FiniteSets, TLC

VARIABLES
    self,      \* the scalar field operated upon (&mut self)
    pre,       \* history: the value of self before the last operation
    op,        \* history: the last operation and its arguments
    consulted, \* history: the coordinates of other read by the last operation
    status,    \* "ok", or "panicked" once an operation aborted
    nops       \* number of operations performed since construction

vars == <<self, pre, op, consulted, status, nops>>

(***************************************************************************)
(* Numbers                                                                 *)
(***************************************************************************)
Abs(x) == IF x < 0 THEN -x ELSE x

RECURSIVE Gcd(_, _)
Gcd(a, b) == IF b = 0 THEN a ELSE Gcd(b, a % b)

\* The rational n / d in lowest terms, d # 0.
Rat(n, d) ==
    LET g == Gcd(Abs(n), Abs(d))
        s == IF d < 0 THEN -1 ELSE 1
    IN  <<(s * n) \div g, (s * d) \div g>>

Int2Rat(n) == <<n, 1>>
RatAdd(a, b) == Rat(a[1] * b[2] + b[1] * a[2], a[2] * b[2])
RatSub(a, b) == Rat(a[1] * b[2] - b[1] * a[2], a[2] * b[2])
RatMul(a, b) == Rat(a[1] * b[1], a[2] * b[2])
RatDiv(a, b) == Rat(a[1] * b[2], a[2] * b[1])
RatNeg(a) == <<-a[1], a[2]>>
RatLt(a, b) == a[1] * b[2] < b[1] * a[2]
RatLe(a, b) == a[1] * b[2] <= b[1] * a[2]

\* f32::round of the quotient p / v of two integers, v > 0: to the nearest
\* integer, half way cases away from zero.
RoundDiv(p, v) ==
    IF p >= 0 THEN (2 * p + v) \div (2 * v)
    ELSE -((2 * (-p) + v) \div (2 * v))

Min2(a, b) == IF a < b THEN a ELSE b
Max2(a, b) == IF a > b THEN a ELSE b
SetMin(S) == CHOOSE m \in S : \A e \in S : m <= e
SetMax(S) == CHOOSE m \in S : \A e \in S : m >= e

(***************************************************************************)
(* Option values and value ranges (std::ops::RangeBounds<f32>)             *)
(***************************************************************************)
None == <<>>
NoIndex == -1

Included(q) == [kind |-> "Included", v |-> q]
Excluded(q) == [kind |-> "Excluded", v |-> q]
Unbounded == [kind |-> "Unbounded", v |-> <<0, 1>>]

\* RangeBounds::contains
RangeContains(range, q) ==
    /\ CASE range.start.kind = "Included" -> RatLe(range.start.v, q)
         [] range.start.kind = "Excluded" -> RatLt(range.start.v, q)
         [] OTHER -> TRUE
    /\ CASE range.end.kind = "Included" -> RatLe(q, range.end.v)
         [] range.end.kind = "Excluded" -> RatLt(q, range.end.v)
         [] OTHER -> TRUE

is_voxel_within_range(voxel, value_range) ==
    IF voxel = None THEN FALSE ELSE RangeContains(value_range, voxel)

\* math::remap.  NoRemap stands for the None it returns.
NoRemap == <<"None">>

remap(value, source_range, target_range) ==
    IF /\ source_range.start = target_range.start
       /\ source_range.end = target_range.end
    THEN value
    ELSE IF \/ source_range.start.kind = "Unbounded"
            \/ source_range.end.kind = "Unbounded"
            \/ target_range.start.kind = "Unbounded"
            \/ target_range.end.kind = "Unbounded"
    THEN NoRemap
    ELSE LET source_start == source_range.start.v
             source_end == source_range.end.v
             target_start == target_range.start.v
             target_end == target_range.end.v
             length_source == RatSub(source_end, source_start)
             length_target == RatSub(target_end, target_start)
         IN  IF length_source = <<0, 1>>
             THEN RatDiv(RatAdd(target_start, target_end), <<2, 1>>)
             ELSE RatAdd(target_start,
                         RatMul(RatDiv(RatSub(value, source_start), length_source),
                                length_target))

(***************************************************************************)
(* Coordinate model                                                        *)
(***************************************************************************)
VecAdd(a, b) == <<a[1] + b[1], a[2] + b[2], a[3] + b[3]>>
VecSub(a, b) == <<a[1] - b[1], a[2] - b[2], a[3] - b[3]>>

\* A conversion that forgets the remainder of the horizontal area for y.
one_dimensional_to_relative_voxel_coordinate_without_remainder(one_dimensional, block_dimensions) ==
    LET horizontal_area == block_dimensions[1] * block_dimensions[2]
        x_dimension == block_dimensions[1]
    IN  << one_dimensional % x_dimension,
           one_dimensional \div x_dimension,
           one_dimensional \div horizontal_area >>

one_dimensional_to_relative_voxel_coordinate(one_dimensional, block_dimensions) ==
    LET horizontal_area == block_dimensions[1] * block_dimensions[2]
        x_dimension == block_dimensions[1]
    IN  << one_dimensional % x_dimension,
           (one_dimensional % horizontal_area) \div x_dimension,
           one_dimensional \div horizontal_area >>

relative_voxel_to_absolute_voxel_coordinate(relative_coordinate, block_start) ==
    VecAdd(relative_coordinate, block_start)

one_dimensional_to_absolute_voxel_coordinate(one_dimensional, block_start, block_dimensions) ==
    relative_voxel_to_absolute_voxel_coordinate(
        one_dimensional_to_relative_voxel_coordinate(one_dimensional, block_dimensions),
        block_start)

relative_voxel_to_cartesian_coordinate(relative_coordinate, block_start, voxel_dimensions) ==
    << (relative_coordinate[1] + block_start[1]) * voxel_dimensions[1],
       (relative_coordinate[2] + block_start[2]) * voxel_dimensions[2],
       (relative_coordinate[3] + block_start[3]) * voxel_dimensions[3] >>

one_dimensional_to_cartesian_coordinate(one_dimensional, block_start, block_dimensions, voxel_dimensions) ==
    relative_voxel_to_cartesian_coordinate(
        one_dimensional_to_relative_voxel_coordinate(one_dimensional, block_dimensions),
        block_start, voxel_dimensions)

cartesian_to_absolute_voxel_coordinate(point, voxel_dimensions) ==
    << RoundDiv(point[1], voxel_dimensions[1]),
       RoundDiv(point[2], voxel_dimensions[2]),
       RoundDiv(point[3], voxel_dimensions[3]) >>

relative_voxel_to_one_dimensional_coordinate(relative_coordinate, block_dimensions) ==
    IF \A i \in 1..3 : /\ relative_coordinate[i] >= 0
                       /\ relative_coordinate[i] < block_dimensions[i]
    THEN relative_coordinate[3] * block_dimensions[1] * block_dimensions[2]
         + relative_coordinate[2] * block_dimensions[1]
         + relative_coordinate[1]
    ELSE NoIndex

\* A lookup of the index that does not subtract the block start.
absolute_voxel_to_one_dimensional_coordinate_without_block_start(absolute_coordinate, block_start, block_dimensions) ==
    relative_voxel_to_one_dimensional_coordinate(absolute_coordinate, block_dimensions)

absolute_voxel_to_one_dimensional_coordinate(absolute_coordinate, block_start, block_dimensions) ==
    relative_voxel_to_one_dimensional_coordinate(
        VecSub(absolute_coordinate, block_start), block_dimensions)

(***************************************************************************)
(* Grid container: ScalarField                                             *)
(***************************************************************************)
Product(block_dimensions) ==
    block_dimensions[1] * block_dimensions[2] * block_dimensions[3]

\* The indices (0-based) into the voxel map of a field.
Indices(sf) == 0 .. (Len(sf.voxels) - 1)

new(block_start, block_dimensions, voxel_dimensions) ==
    [ block_start |-> block_start,
      block_dimensions |-> block_dimensions,
      voxel_dimensions |-> voxel_dimensions,
      voxels |-> [i \in 1 .. Product(block_dimensions) |-> None] ]

\* A wipe that forgets to empty the voxel map.
wipe_keeping_voxels(sf) ==
    [sf EXCEPT !.block_start = <<0, 0, 0>>,
               !.block_dimensions = <<0, 0, 0>>]

wipe(sf) ==
    [sf EXCEPT !.block_start = <<0, 0, 0>>,
               !.block_dimensions = <<0, 0, 0>>,
               !.voxels = <<>>]

contains_voxels_within_range(sf, volume_value_range) ==
    \E i \in Indices(sf) : is_voxel_within_range(sf.voxels[i + 1], volume_value_range)

\* The index expression self.voxels[index] panics: the index is not within
\* the voxel map.
value_at_absolute_voxel_coordinate_panics(sf, absolute_coordinate) ==
    LET index == absolute_voxel_to_one_dimensional_coordinate(
                     absolute_coordinate, sf.block_start, sf.block_dimensions)
    IN  index # NoIndex /\ index >= Len(sf.voxels)

\* A lookup that takes the coordinate as relative to the block start.
value_at_relative_voxel_coordinate(sf, absolute_coordinate) ==
    LET index == relative_voxel_to_one_dimensional_coordinate(
                     absolute_coordinate, sf.block_dimensions)
    IN  IF index # NoIndex THEN sf.voxels[index + 1] ELSE None

value_at_absolute_voxel_coordinate(sf, absolute_coordinate) ==
    LET index == absolute_voxel_to_one_dimensional_coordinate(
                     absolute_coordinate, sf.block_start, sf.block_dimensions)
    IN  IF index # NoIndex THEN sf.voxels[index + 1] ELSE None

is_value_at_absolute_voxel_coordinate_within_range(sf, absolute_coordinate, volume_value_range) ==
    is_voxel_within_range(value_at_absolute_voxel_coordinate(sf, absolute_coordinate),
                          volume_value_range)

\* A write that sets every voxel of the block.
set_value_at_every_voxel_coordinate(sf, absolute_coordinate, value) ==
    [sf EXCEPT !.voxels = [i \in 1 .. Len(sf.voxels) |-> value]]

\* The field after a successful write; the caller decides the out of bounds
\* case (the expect() of the source panics there).
set_value_at_absolute_voxel_coordinate(sf, absolute_coordinate, value) ==
    LET index == absolute_voxel_to_one_dimensional_coordinate(
                     absolute_coordinate, sf.block_start, sf.block_dimensions)
    IN  [sf EXCEPT !.voxels[index + 1] = value]

fill_with(sf, value) ==
    [sf EXCEPT !.voxels = [i \in 1 .. Len(sf.voxels) |-> value]]

\* A resize that copies no value of the original field.
resize_keeping_nothing(sf, resized_block_start, resized_block_dimensions) ==
    IF /\ resized_block_start = sf.block_start
       /\ resized_block_dimensions = sf.block_dimensions
    THEN sf
    ELSE IF resized_block_dimensions = <<0, 0, 0>>
    THEN wipe(sf)
    ELSE [sf EXCEPT
            !.block_start = resized_block_start,
            !.block_dimensions = resized_block_dimensions,
            !.voxels = [i \in 1 .. Product(resized_block_dimensions) |-> None]]

\* A resize that does not wipe when resizing to an empty scalar field.
resize_never_wiping(sf, resized_block_start, resized_block_dimensions) ==
    IF /\ resized_block_start = sf.block_start
       /\ resized_block_dimensions = sf.block_dimensions
    THEN sf
    ELSE [sf EXCEPT
            !.block_start = resized_block_start,
            !.block_dimensions = resized_block_dimensions,
            !.voxels =
                [i \in 1 .. Product(resized_block_dimensions) |->
                    LET absolute_coordinate ==
                            one_dimensional_to_absolute_voxel_coordinate(
                                i - 1, resized_block_start, resized_block_dimensions)
                        original_one_dimensional ==
                            absolute_voxel_to_one_dimensional_coordinate(
                                absolute_coordinate, sf.block_start, sf.block_dimensions)
                    IN  IF original_one_dimensional # NoIndex
                        THEN sf.voxels[original_one_dimensional + 1]
                        ELSE None]]

\* A resize that does not return early if the dimensions haven't changed.
resize_without_early_return(sf, resized_block_start, resized_block_dimensions) ==
    IF resized_block_dimensions = <<0, 0, 0>>
    THEN wipe(sf)
    ELSE [sf EXCEPT
            !.block_start = resized_block_start,
            !.block_dimensions = resized_block_dimensions,
            !.voxels =
                [i \in 1 .. Product(resized_block_dimensions) |->
                    LET absolute_coordinate ==
                            one_dimensional_to_absolute_voxel_coordinate(
                                i - 1, resized_block_start, resized_block_dimensions)
                        original_one_dimensional ==
                            absolute_voxel_to_one_dimensional_coordinate(
                                absolute_coordinate, sf.block_start, sf.block_dimensions)
                    IN  IF original_one_dimensional # NoIndex
                        THEN sf.voxels[original_one_dimensional + 1]
                        ELSE None]]

resize(sf, resized_block_start, resized_block_dimensions) ==
    IF /\ resized_block_start = sf.block_start
       /\ resized_block_dimensions = sf.block_dimensions
    THEN sf
    ELSE IF resized_block_dimensions = <<0, 0, 0>>
    THEN wipe(sf)
    ELSE [sf EXCEPT
            !.block_start = resized_block_start,
            !.block_dimensions = resized_block_dimensions,
            !.voxels =
                [i \in 1 .. Product(resized_block_dimensions) |->
                    LET absolute_coordinate ==
                            one_dimensional_to_absolute_voxel_coordinate(
                                i - 1, resized_block_start, resized_block_dimensions)
                        original_one_dimensional ==
                            absolute_voxel_to_one_dimensional_coordinate(
                                absolute_coordinate, sf.block_start, sf.block_dimensions)
                    IN  IF original_one_dimensional # NoIndex
                        THEN sf.voxels[original_one_dimensional + 1]
                        ELSE None]]

\* compute_volume_boundaries: NoBoundaries stands for None, otherwise the
\* pair <<block_start, block_dimensions>> of the per axis minimum and
\* (maximum - minimum + 1) over the voxels within the range.
NoBoundaries == <<>>

\* Boundaries that are one voxel short on every axis.
compute_volume_boundaries_without_plus_one(sf, volume_value_range) ==
    LET volume == { one_dimensional_to_absolute_voxel_coordinate(
                        i, sf.block_start, sf.block_dimensions) :
                    i \in { j \in Indices(sf) :
                              is_voxel_within_range(sf.voxels[j + 1], volume_value_range) } }
    IN  IF volume = {} THEN NoBoundaries
        ELSE LET absolute_min == [a \in 1..3 |-> SetMin({c[a] : c \in volume})]
                 absolute_max == [a \in 1..3 |-> SetMax({c[a] : c \in volume})]
             IN  << <<absolute_min[1], absolute_min[2], absolute_min[3]>>,
                    << Max2(0, absolute_max[1] - absolute_min[1]),
                       Max2(0, absolute_max[2] - absolute_min[2]),
                       Max2(0, absolute_max[3] - absolute_min[3]) >> >>

\* Boundaries in coordinates relative to the block start.
compute_volume_boundaries_relative_to_block(sf, volume_value_range) ==
    LET volume == { one_dimensional_to_relative_voxel_coordinate(
                        i, sf.block_dimensions) :
                    i \in { j \in Indices(sf) :
                              is_voxel_within_range(sf.voxels[j + 1], volume_value_range) } }
    IN  IF volume = {} THEN NoBoundaries
        ELSE LET absolute_min == [a \in 1..3 |-> SetMin({c[a] : c \in volume})]
                 absolute_max == [a \in 1..3 |-> SetMax({c[a] : c \in volume})]
             IN  << <<absolute_min[1], absolute_min[2], absolute_min[3]>>,
                    << Max2(0, absolute_max[1] - absolute_min[1] + 1),
                       Max2(0, absolute_max[2] - absolute_min[2] + 1),
                       Max2(0, absolute_max[3] - absolute_min[3] + 1) >> >>

compute_volume_boundaries(sf, volume_value_range) ==
    LET volume == { one_dimensional_to_absolute_voxel_coordinate(
                        i, sf.block_start, sf.block_dimensions) :
                    i \in { j \in Indices(sf) :
                              is_voxel_within_range(sf.voxels[j + 1], volume_value_range) } }
    IN  IF volume = {} THEN NoBoundaries
        ELSE LET absolute_min == [a \in 1..3 |-> SetMin({c[a] : c \in volume})]
                 absolute_max == [a \in 1..3 |-> SetMax({c[a] : c \in volume})]
             IN  << <<absolute_min[1], absolute_min[2], absolute_min[3]>>,
                    << Max2(0, absolute_max[1] - absolute_min[1] + 1),
                       Max2(0, absolute_max[2] - absolute_min[2] + 1),
                       Max2(0, absolute_max[3] - absolute_min[3] + 1) >> >>

shrink_to_fit(sf, volume_value_range) ==
    LET boundaries == compute_volume_boundaries(sf, volume_value_range)
    IN  IF boundaries # NoBoundaries
        THEN resize(sf, boundaries[1], boundaries[2])
        ELSE wipe(sf)

(***************************************************************************)
(* Distance transform                                                      *)
(***************************************************************************)
\* A lookup table that never looks up the neighbor above (<<0, 0, 1>>); the
\* distances below must tell it from neighbor_offsets.
neighbor_offsets_never_up ==
    << <<-1, 0, 0>>, <<1, 0, 0>>, <<0, -1, 0>>, <<0, 1, 0>>, <<0, 0, -1>>, <<0, 0, -1>> >>

neighbor_offsets ==
    << <<-1, 0, 0>>, <<1, 0, 0>>, <<0, -1, 0>>, <<0, 1, 0>>, <<0, 0, -1>>, <<0, 0, 1>> >>

\* Neighbors that are looked up along the x axis only.
NeighborsAlongX(sf, one_dimensional) ==
    LET absolute_coordinate == one_dimensional_to_absolute_voxel_coordinate(
                                   one_dimensional, sf.block_start, sf.block_dimensions)
    IN  [k \in 1..6 |-> VecAdd(absolute_coordinate, neighbor_offsets[IF k % 2 = 1 THEN 1 ELSE 2])]

\* The absolute coordinates of the six neighbors, in the order of the lookup table.
Neighbors(sf, one_dimensional) ==
    LET absolute_coordinate == one_dimensional_to_absolute_voxel_coordinate(
                                   one_dimensional, sf.block_start, sf.block_dimensions)
    IN  [k \in 1..6 |-> VecAdd(absolute_coordinate, neighbor_offsets[k])]

IndexIn(sf, absolute_coordinate) ==
    absolute_voxel_to_one_dimensional_coordinate(
        absolute_coordinate, sf.block_start, sf.block_dimensions)

SeqRange(s) == {s[k] : k \in 1 .. Len(s)}

\* A boundary test that knows the faces at relative coordinate 0 only.
IsAtLowBlockBoundary(sf, one_dimensional) ==
    LET relative_coordinate == one_dimensional_to_relative_voxel_coordinate(
                                   one_dimensional, sf.block_dimensions)
    IN  \/ relative_coordinate[1] = 0
        \/ relative_coordinate[2] = 0
        \/ relative_coordinate[3] = 0

\* The scan of the voxel map (first loop): is the void voxel at the boundary
\* of the block.
IsAtBlockBoundary(sf, one_dimensional) ==
    LET relative_coordinate == one_dimensional_to_relative_voxel_coordinate(
                                   one_dimensional, sf.block_dimensions)
    IN  \/ relative_coordinate[1] = 0
        \/ relative_coordinate[2] = 0
        \/ relative_coordinate[3] = 0
        \/ relative_coordinate[1] = sf.block_dimensions[1] - 1
        \/ relative_coordinate[2] = sf.block_dimensions[2] - 1
        \/ relative_coordinate[3] = sf.block_dimensions[3] - 1

\* All indices of the voxel map in ascending order (the order of iteration).
ScanOrder(sf) == [k \in 1 .. Len(sf.voxels) |-> k - 1]

initial_queue_to_find_outer(sf, volume_value_range) ==
    SelectSeq(ScanOrder(sf),
              LAMBDA i : /\ ~is_voxel_within_range(sf.voxels[i + 1], volume_value_range)
                         /\ IsAtBlockBoundary(sf, i))

\* A queue that starts the volume voxels at distance 1.
initial_queue_at_distance_one(sf, volume_value_range) ==
    LET volume == SelectSeq(ScanOrder(sf),
                            LAMBDA i : is_voxel_within_range(sf.voxels[i + 1],
                                                             volume_value_range))
    IN  [k \in 1 .. Len(volume) |-> <<volume[k], 1>>]

initial_queue_to_compute_distance(sf, volume_value_range) ==
    LET volume == SelectSeq(ScanOrder(sf),
                            LAMBDA i : is_voxel_within_range(sf.voxels[i + 1],
                                                             volume_value_range))
    IN  [k \in 1 .. Len(volume) |-> <<volume[k], 0>>]

\* The loop that processes queue_to_find_outer; the result is the set of
\* indices flagged in discovered_as_outer_and_empty.
RECURSIVE find_outer(_, _, _, _)
find_outer(sf, volume_value_range, queue_to_find_outer, discovered_as_outer_and_empty) ==
    IF queue_to_find_outer = <<>> THEN discovered_as_outer_and_empty
    ELSE LET one_dimensional == Head(queue_to_find_outer)
             pushed == SelectSeq(Neighbors(sf, one_dimensional),
                           LAMBDA c :
                               /\ ~is_value_at_absolute_voxel_coordinate_within_range(
                                      sf, c, volume_value_range)
                               /\ IndexIn(sf, c) # NoIndex
                               /\ IndexIn(sf, c) \notin discovered_as_outer_and_empty)
             pushed_indices == [k \in 1 .. Len(pushed) |-> IndexIn(sf, pushed[k])]
         IN  find_outer(sf, volume_value_range,
                        Tail(queue_to_find_outer) \o pushed_indices,
                        discovered_as_outer_and_empty \cup SeqRange(pushed_indices))

\* The loop that processes queue_to_compute_distance and writes the voxels;
\* the result is the field after the loop.
RECURSIVE compute_distance(_, _, _, _, _)
compute_distance(sf, volume_value_range, discovered_as_outer_and_empty, queue_to_compute_distance, discovered_for_distance_field) ==
    IF queue_to_compute_distance = <<>> THEN sf
    ELSE LET one_dimensional == Head(queue_to_compute_distance)[1]
             distance == Head(queue_to_compute_distance)[2]
             pushed == SelectSeq(Neighbors(sf, one_dimensional),
                           LAMBDA c :
                               /\ IndexIn(sf, c) # NoIndex
                               /\ IndexIn(sf, c) \notin discovered_for_distance_field
                               /\ ~is_value_at_absolute_voxel_coordinate_within_range(
                                      sf, c, volume_value_range))
             pushed_entries ==
                 [k \in 1 .. Len(pushed) |-> <<IndexIn(sf, pushed[k]), distance + 1>>]
             written == IF one_dimensional \in discovered_as_outer_and_empty
                        THEN Int2Rat(distance)
                        ELSE Int2Rat(-distance)
         IN  compute_distance(
                 [sf EXCEPT !.voxels[one_dimensional + 1] = written],
                 volume_value_range,
                 discovered_as_outer_and_empty,
                 Tail(queue_to_compute_distance) \o pushed_entries,
                 discovered_for_distance_field
                     \cup {pushed_entries[k][1] : k \in 1 .. Len(pushed_entries)})

\* The set discovered_as_outer_and_empty when the first queue has drained.
outer_and_empty(sf, volume_value_range) ==
    LET queue == initial_queue_to_find_outer(sf, volume_value_range)
    IN  find_outer(sf, volume_value_range, queue, SeqRange(queue))

compute_distance_field(sf, volume_value_range) ==
    LET queue == initial_queue_to_compute_distance(sf, volume_value_range)
    IN  compute_distance(sf, volume_value_range,
                         outer_and_empty(sf, volume_value_range),
                         queue,
                         {queue[k][1] : k \in 1 .. Len(queue)})

\* The statements of compute_distance_field one at a time.  The state of the
\* loops: the indices of the voxel map that the scan has not visited, the
\* two queues and the two tables of flags, the entry that was popped
\* (one_dimensional, distance; NoIndex between two entries), the indices
\* into neighbor_offsets that are not yet examined for it, whether a voxel
\* or an offset was visited before one that the code visits earlier, and for
\* every index of the voxel map the number of times it was pushed to each
\* queue.
loop_at_start(sf) ==
    [ pc |-> IF sf.voxels = <<>> THEN "find_outer" ELSE "scan",
      unscanned |-> Indices(sf),
      queue_to_find_outer |-> <<>>,
      queue_to_compute_distance |-> <<>>,
      discovered_as_outer_and_empty |-> {},
      discovered_for_distance_field |-> {},
      one_dimensional |-> NoIndex,
      distance |-> 0,
      unexamined |-> {},
      out_of_order |-> FALSE,
      pushed_to_find_outer |-> [i \in 1 .. Len(sf.voxels) |-> 0],
      pushed_to_compute_distance |-> [i \in 1 .. Len(sf.voxels) |-> 0] ]

\* A flag table that is never written.
discovered_never(discovered, one_dimensional) == discovered

\* discovered[one_dimensional] = true
discovered_with(discovered, one_dimensional) == discovered \cup {one_dimensional}

\* A queue that is popped at the back.
pop_back(queue) ==
    [front |-> queue[Len(queue)], queue |-> SubSeq(queue, 1, Len(queue) - 1)]

\* VecDeque::pop_front of a queue that is not empty.
pop_front(queue) == [front |-> Head(queue), queue |-> Tail(queue)]

\* queue_to_find_outer.push_back(one_dimensional) and the flag.
push_to_find_outer(loop, one_dimensional) ==
    [loop EXCEPT
        !.queue_to_find_outer = Append(@, one_dimensional),
        !.discovered_as_outer_and_empty = discovered_with(@, one_dimensional),
        !.pushed_to_find_outer[one_dimensional + 1] = @ + 1]

\* queue_to_compute_distance.push_back((one_dimensional, distance)) and the
\* flag.
push_to_compute_distance(loop, one_dimensional, distance) ==
    [loop EXCEPT
        !.queue_to_compute_distance = Append(@, <<one_dimensional, distance>>),
        !.discovered_for_distance_field = discovered_with(@, one_dimensional),
        !.pushed_to_compute_distance[one_dimensional + 1] = @ + 1]

\* The body of the scan for one voxel.
scan_voxel(sf, volume_value_range, loop, one_dimensional) ==
    IF ~is_voxel_within_range(sf.voxels[one_dimensional + 1], volume_value_range)
    THEN IF IsAtBlockBoundary(sf, one_dimensional)
         THEN push_to_find_outer(loop, one_dimensional)
         ELSE loop
    ELSE push_to_compute_distance(loop, one_dimensional, 0)

\* The loop state after the scan of one voxel: the first loop follows the
\* scan of the last.
scanned(loop, one_dimensional) ==
    [loop EXCEPT !.unscanned = @ \ {one_dimensional},
                 !.out_of_order = @ \/ one_dimensional # SetMin(loop.unscanned),
                 !.pc = IF loop.unscanned = {one_dimensional} THEN "find_outer" ELSE "scan"]

\* while let Some(one_dimensional) = queue_to_find_outer.pop_front()
pop_to_find_outer(loop) ==
    IF loop.queue_to_find_outer = <<>>
    THEN [loop EXCEPT !.pc = "compute_distance"]
    ELSE [loop EXCEPT !.queue_to_find_outer = pop_front(@).queue,
                      !.one_dimensional = pop_front(loop.queue_to_find_outer).front,
                      !.unexamined = 1..6]

\* while let Some((one_dimensional, distance)) =
\* queue_to_compute_distance.pop_front()
pop_to_compute_distance(loop) ==
    IF loop.queue_to_compute_distance = <<>>
    THEN [loop EXCEPT !.pc = "done"]
    ELSE [loop EXCEPT !.queue_to_compute_distance = pop_front(@).queue,
                      !.one_dimensional = pop_front(loop.queue_to_compute_distance).front[1],
                      !.distance = pop_front(loop.queue_to_compute_distance).front[2],
                      !.unexamined = 1..6]

\* The loop state after one neighbor offset: the entry is done with the last.
examined(loop, k) ==
    [loop EXCEPT !.unexamined = @ \ {k},
                 !.out_of_order = @ \/ k # SetMin(loop.unexamined),
                 !.one_dimensional = IF loop.unexamined = {k} THEN NoIndex ELSE @]

\* The body of the loop over the neighbor offsets of the first loop, for
\* the offset k.
find_outer_neighbor(sf, volume_value_range, loop, k) ==
    LET neighbor_absolute_coordinate == Neighbors(sf, loop.one_dimensional)[k]
    IN  IF /\ ~is_value_at_absolute_voxel_coordinate_within_range(
                  sf, neighbor_absolute_coordinate, volume_value_range)
           /\ IndexIn(sf, neighbor_absolute_coordinate) # NoIndex
           /\ IndexIn(sf, neighbor_absolute_coordinate) \notin loop.discovered_as_outer_and_empty
        THEN push_to_find_outer(loop, IndexIn(sf, neighbor_absolute_coordinate))
        ELSE loop

\* The body of the loop over the neighbor offsets of the second loop, for
\* the offset k.
compute_distance_neighbor(sf, volume_value_range, loop, k) ==
    LET neighbor_absolute_coordinate == Neighbors(sf, loop.one_dimensional)[k]
    IN  IF /\ IndexIn(sf, neighbor_absolute_coordinate) # NoIndex
           /\ IndexIn(sf, neighbor_absolute_coordinate) \notin loop.discovered_for_distance_field
           /\ ~is_value_at_absolute_voxel_coordinate_within_range(
                  sf, neighbor_absolute_coordinate, volume_value_range)
        THEN push_to_compute_distance(loop, IndexIn(sf, neighbor_absolute_coordinate),
                                      loop.distance + 1)
        ELSE loop

\* self.voxels[one_dimensional] = Some(distance) or Some(-distance), after
\* the last neighbor offset of the entry.
with_distance_written(sf, loop, k) ==
    IF loop.unexamined # {k} THEN sf
    ELSE [sf EXCEPT !.voxels[loop.one_dimensional + 1] =
              IF loop.one_dimensional \in loop.discovered_as_outer_and_empty
              THEN Int2Rat(loop.distance)
              ELSE Int2Rat(-loop.distance)]

(***************************************************************************)
(* Bounding boxes in voxel space (crate::bounding_box::BoundingBox<i32>)   *)
(***************************************************************************)
NoBox == [is_some |-> FALSE]

BoundingBox_new(a, b) ==
    [ is_some |-> TRUE,
      minimum_point |-> <<Min2(a[1], b[1]), Min2(a[2], b[2]), Min2(a[3], b[3])>>,
      maximum_point |-> <<Max2(a[1], b[1]), Max2(a[2], b[2]), Max2(a[3], b[3])>> ]

diagonal(bounding_box) ==
    VecSub(bounding_box.maximum_point, bounding_box.minimum_point)

\* The boxes that are Some among a sequence of Option<BoundingBox>
\* (filter_map(|b| *b)).
ValidBoxes(bounding_boxes) == SelectSeq(bounding_boxes, LAMBDA b : b.is_some)

\* The box common to all boxes of a sequence; None for no boxes and for boxes
\* that do not overlap.
BoundingBox_intersection(bounding_boxes) ==
    IF bounding_boxes = <<>> THEN NoBox
    ELSE LET lo == [a \in 1..3 |->
                       SetMax({bounding_boxes[k].minimum_point[a] :
                                 k \in 1 .. Len(bounding_boxes)})]
             hi == [a \in 1..3 |->
                       SetMin({bounding_boxes[k].maximum_point[a] :
                                 k \in 1 .. Len(bounding_boxes)})]
         IN  IF \E a \in 1..3 : lo[a] > hi[a] THEN NoBox
             ELSE BoundingBox_new(<<lo[1], lo[2], lo[3]>>, <<hi[1], hi[2], hi[3]>>)

\* The smallest box around all boxes of a sequence; None for no boxes.
BoundingBox_union(bounding_boxes) ==
    IF bounding_boxes = <<>> THEN NoBox
    ELSE LET lo == [a \in 1..3 |->
                       SetMin({bounding_boxes[k].minimum_point[a] :
                                 k \in 1 .. Len(bounding_boxes)})]
             hi == [a \in 1..3 |->
                       SetMax({bounding_boxes[k].maximum_point[a] :
                                 k \in 1 .. Len(bounding_boxes)})]
         IN  BoundingBox_new(<<lo[1], lo[2], lo[3]>>, <<hi[1], hi[2], hi[3]>>)

resize_to_voxel_space_bounding_box(sf, bounding_box) ==
    resize(sf, bounding_box.minimum_point, diagonal(bounding_box))

volume_bounding_box(sf, volume_value_range) ==
    LET boundaries == compute_volume_boundaries(sf, volume_value_range)
    IN  IF boundaries = NoBoundaries THEN NoBox
        ELSE LET volume_start == boundaries[1]
                 volume_dimensions == boundaries[2]
                 volume_end == VecAdd(volume_start,
                                      << volume_dimensions[1] + 1,
                                         volume_dimensions[2] + 1,
                                         volume_dimensions[3] + 1 >>)
             IN  BoundingBox_new(volume_start, volume_end)

(***************************************************************************)
(* Boolean combinator                                                      *)
(***************************************************************************)
\* The absolute voxel coordinate of other that the voxel with the given
\* index of a block with the given start and dimensions is resampled from.
Resampled(one_dimensional, block_start, block_dimensions, voxel_dimensions, other) ==
    cartesian_to_absolute_voxel_coordinate(
        one_dimensional_to_cartesian_coordinate(
            one_dimensional, block_start, block_dimensions, voxel_dimensions),
        other.voxel_dimensions)

\* No volume is ever common to both scalar fields.
intersection_bounding_box_of_nothing(self_volume_bounding_box, other_volume_bounding_box) ==
    NoBox

\* Find volume common to both scalar fields.
intersection_bounding_box(self_volume_bounding_box, other_volume_bounding_box) ==
    IF self_volume_bounding_box.is_some /\ other_volume_bounding_box.is_some
    THEN BoundingBox_intersection(<<self_volume_bounding_box, other_volume_bounding_box>>)
    ELSE NoBox

\* A loop that clears nothing.
intersection_loop_clearing_nothing(resized, block_start, block_dimensions, other, volume_value_range_other) ==
    resized

\* The loop of boolean_intersection over the voxels of the resized field:
\* boolean AND on the voxel values of both scalar fields.
intersection_loop(resized, block_start, block_dimensions, other, volume_value_range_other) ==
    [resized EXCEPT !.voxels =
        [i \in 1 .. Len(resized.voxels) |->
            IF ~is_value_at_absolute_voxel_coordinate_within_range(
                   other,
                   Resampled(i - 1, block_start, block_dimensions,
                             resized.voxel_dimensions, other),
                   volume_value_range_other)
            THEN None
            ELSE resized.voxels[i]]]

\* boolean_intersection once the common bounding box is known.
intersection_within(sf, volume_value_range_self, other, volume_value_range_other, bounding_box) ==
    IF bounding_box.is_some
    THEN shrink_to_fit(
             intersection_loop(resize_to_voxel_space_bounding_box(sf, bounding_box),
                               bounding_box.minimum_point, diagonal(bounding_box),
                               other, volume_value_range_other),
             volume_value_range_self)
    ELSE wipe(sf)

boolean_intersection(sf, volume_value_range_self, other, volume_value_range_other) ==
    intersection_within(
        sf, volume_value_range_self, other, volume_value_range_other,
        intersection_bounding_box(volume_bounding_box(sf, volume_value_range_self),
                                  volume_bounding_box(other, volume_value_range_other)))

\* The block boolean_union resizes self to.
union_bounding_box(bounding_box_self, bounding_box_other) ==
    BoundingBox_union(ValidBoxes(<<bounding_box_self, bounding_box_other>>))

\* The voxel of other that the voxel with the given index of the resized
\* field is resampled from.
union_voxel_other(resized, one_dimensional, other) ==
    value_at_absolute_voxel_coordinate(
        other,
        Resampled(one_dimensional, resized.block_start, resized.block_dimensions,
                  resized.voxel_dimensions, other))

\* boolean_union takes the value of the voxel with the given index of the
\* resized field from other.
union_takes(resized, one_dimensional, volume_value_range_self, other, volume_value_range_other) ==
    /\ ~is_voxel_within_range(resized.voxels[one_dimensional + 1],
                              volume_value_range_self)
    /\ is_voxel_within_range(union_voxel_other(resized, one_dimensional, other),
                             volume_value_range_other)

\* The value of other taken as it is, not remapped.
union_not_remapped(resized, one_dimensional, volume_value_range_self, other, volume_value_range_other) ==
    union_voxel_other(resized, one_dimensional, other)

union_remapped(resized, one_dimensional, volume_value_range_self, other, volume_value_range_other) ==
    remap(union_voxel_other(resized, one_dimensional, other),
          volume_value_range_other, volume_value_range_self)

\* The loop of boolean_union over the voxels of the resized field panics:
\* remap returns None for a value the loop has to take.
union_loop_panics(resized, volume_value_range_self, other, volume_value_range_other) ==
    \E i \in Indices(resized) :
        /\ union_takes(resized, i, volume_value_range_self, other,
                       volume_value_range_other)
        /\ union_remapped(resized, i, volume_value_range_self, other,
                          volume_value_range_other) = NoRemap

\* The loop of boolean_union over the voxels of the resized field.
union_loop(resized, volume_value_range_self, other, volume_value_range_other) ==
    [resized EXCEPT !.voxels =
        [i \in 1 .. Len(resized.voxels) |->
            IF union_takes(resized, i - 1, volume_value_range_self, other,
                           volume_value_range_other)
            THEN union_remapped(resized, i - 1, volume_value_range_self, other,
                                volume_value_range_other)
            ELSE resized.voxels[i]]]

\* boolean_union once the bounding box of both volumes is known.
union_within(sf, volume_value_range_self, other, volume_value_range_other, bounding_box) ==
    IF bounding_box.is_some
    THEN shrink_to_fit(
             union_loop(resize_to_voxel_space_bounding_box(sf, bounding_box),
                        volume_value_range_self, other, volume_value_range_other),
             volume_value_range_self)
    ELSE wipe(sf)

union_panics_within(sf, volume_value_range_self, other, volume_value_range_other, bounding_box) ==
    /\ bounding_box.is_some
    /\ union_loop_panics(resize_to_voxel_space_bounding_box(sf, bounding_box),
                         volume_value_range_self, other, volume_value_range_other)

\* boolean_union panics (the expect() on the result of remap).
boolean_union_panics(sf, volume_value_range_self, other, volume_value_range_other) ==
    /\ volume_bounding_box(other, volume_value_range_other) # NoBox
    /\ union_panics_within(
           sf, volume_value_range_self, other, volume_value_range_other,
           union_bounding_box(volume_bounding_box(sf, volume_value_range_self),
                              volume_bounding_box(other, volume_value_range_other)))

\* A union without the early return for an empty other.
boolean_union_without_early_return(sf, volume_value_range_self, other, volume_value_range_other) ==
    union_within(
        sf, volume_value_range_self, other, volume_value_range_other,
        union_bounding_box(volume_bounding_box(sf, volume_value_range_self),
                           volume_bounding_box(other, volume_value_range_other)))

\* The field after boolean_union returned.
boolean_union(sf, volume_value_range_self, other, volume_value_range_other) ==
    IF volume_bounding_box(other, volume_value_range_other) = NoBox
    THEN sf
    ELSE union_within(
             sf, volume_value_range_self, other, volume_value_range_other,
             union_bounding_box(volume_bounding_box(sf, volume_value_range_self),
                                volume_bounding_box(other, volume_value_range_other)))

\* The absolute coordinates of the voxels of self for which
\* boolean_difference reads other.
difference_consulted(sf, volume_value_range_self) ==
    { one_dimensional_to_absolute_voxel_coordinate(i, sf.block_start, sf.block_dimensions) :
        i \in { j \in Indices(sf) :
                  is_voxel_within_range(sf.voxels[j + 1], volume_value_range_self) } }

\* A loop that tests the voxels of other against the range of self.
difference_loop_with_range_of_self(sf, volume_value_range_self, other, volume_value_range_other) ==
    [sf EXCEPT !.voxels =
        [i \in 1 .. Len(sf.voxels) |->
            IF /\ is_voxel_within_range(sf.voxels[i], volume_value_range_self)
               /\ is_value_at_absolute_voxel_coordinate_within_range(
                      other,
                      Resampled(i - 1, sf.block_start, sf.block_dimensions,
                                sf.voxel_dimensions, other),
                      volume_value_range_self)
            THEN None
            ELSE sf.voxels[i]]]

\* The loop of boolean_difference over the voxels of self.
difference_loop(sf, volume_value_range_self, other, volume_value_range_other) ==
    [sf EXCEPT !.voxels =
        [i \in 1 .. Len(sf.voxels) |->
            IF /\ is_voxel_within_range(sf.voxels[i], volume_value_range_self)
               /\ is_value_at_absolute_voxel_coordinate_within_range(
                      other,
                      Resampled(i - 1, sf.block_start, sf.block_dimensions,
                                sf.voxel_dimensions, other),
                      volume_value_range_other)
            THEN None
            ELSE sf.voxels[i]]]

boolean_difference(sf, volume_value_range_self, other, volume_value_range_other) ==
    shrink_to_fit(difference_loop(sf, volume_value_range_self, other,
                                  volume_value_range_other),
                  volume_value_range_self)

(***************************************************************************)
(* Rasterizer: ScalarField::from_mesh                                      *)
(***************************************************************************)
\* Points and vectors of f32 are triples of rationals.
ToPoint(v) == <<Int2Rat(v[1]), Int2Rat(v[2]), Int2Rat(v[3])>>
PointAdd(a, b) == <<RatAdd(a[1], b[1]), RatAdd(a[2], b[2]), RatAdd(a[3], b[3])>>
PointSub(a, b) == <<RatSub(a[1], b[1]), RatSub(a[2], b[2]), RatSub(a[3], b[3])>>
PointScale(q, a) == <<RatMul(q, a[1]), RatMul(q, a[2]), RatMul(q, a[3])>>
distance_squared(a, b) ==
    LET d == PointSub(a, b)
    IN  RatAdd(RatMul(d[1], d[1]), RatAdd(RatMul(d[2], d[2]), RatMul(d[3], d[3])))

\* f32::floor, f32::ceil and f32::round of a rational, as i32.
RatFloor(q) == q[1] \div q[2]
RatCeil(q) == -((-q[1]) \div q[2])
RatRound(q) == RoundDiv(q[1], q[2])

RatMin(S) == CHOOSE m \in S : \A e \in S : RatLe(m, e)
RatMax(S) == CHOOSE m \in S : \A e \in S : RatLe(e, m)

\* The box around the vertices of a mesh (Mesh::bounding_box), in cartesian
\* units.
Mesh_bounding_box(mesh) ==
    [ minimum_point |-> [a \in 1..3 |->
                            RatMin({ mesh.vertices[i][a] : i \in 1 .. Len(mesh.vertices) })],
      maximum_point |-> [a \in 1..3 |->
                            RatMax({ mesh.vertices[i][a] : i \in 1 .. Len(mesh.vertices) })] ]

\* The box grown by the vector on every side (BoundingBox::offset).
BoundingBox_offset(bounding_box, offset) ==
    [ minimum_point |-> PointSub(bounding_box.minimum_point, offset),
      maximum_point |-> PointAdd(bounding_box.maximum_point, offset) ]

\* The conversion of a point of rational coordinates to the voxel around it.
cartesian_point_to_absolute_voxel_coordinate(point, voxel_dimensions) ==
    << RatRound(RatDiv(point[1], Int2Rat(voxel_dimensions[1]))),
       RatRound(RatDiv(point[2], Int2Rat(voxel_dimensions[2]))),
       RatRound(RatDiv(point[3], Int2Rat(voxel_dimensions[3]))) >>

\* A block from the floor of both corners of the box.
from_cartesian_bounding_box_of_floors(bounding_box, voxel_dimensions) ==
    LET min_index == [a \in 1..3 |-> RatFloor(RatDiv(bounding_box.minimum_point[a],
                                                    Int2Rat(voxel_dimensions[a])))]
        max_index == [a \in 1..3 |-> RatFloor(RatDiv(bounding_box.maximum_point[a],
                                                    Int2Rat(voxel_dimensions[a])))]
    IN  new(<<min_index[1], min_index[2], min_index[3]>>,
            << max_index[1] - min_index[1] + 1, max_index[2] - min_index[2] + 1,
               max_index[3] - min_index[3] + 1 >>,
            voxel_dimensions)

from_cartesian_bounding_box(bounding_box, voxel_dimensions) ==
    LET min_index == [a \in 1..3 |-> RatFloor(RatDiv(bounding_box.minimum_point[a],
                                                    Int2Rat(voxel_dimensions[a])))]
        max_index == [a \in 1..3 |-> RatCeil(RatDiv(bounding_box.maximum_point[a],
                                                   Int2Rat(voxel_dimensions[a])))]
    IN  new(<<min_index[1], min_index[2], min_index[3]>>,
            << max_index[1] - min_index[1] + 1, max_index[2] - min_index[2] + 1,
               max_index[3] - min_index[3] + 1 >>,
            voxel_dimensions)

\* The point of the triangle a, b, c at the barycentric coordinates.
barycentric_to_cartesian(barycentric, a, b, c) ==
    PointAdd(PointScale(barycentric[1], a),
             PointAdd(PointScale(barycentric[2], b), PointScale(barycentric[3], c)))

\* (longest_edge_len / smallest_voxel_dimension).ceil(): the least n with
\* n * smallest_voxel_dimension >= longest_edge_len, from the square of the
\* length.
DivisionsOf(longest_edge_len_sq, smallest_voxel_dimension) ==
    LET reaches(n) == RatLe(longest_edge_len_sq,
                            Int2Rat(n * n * smallest_voxel_dimension * smallest_voxel_dimension))
    IN  CHOOSE n \in 0 .. (RatCeil(longest_edge_len_sq) + 1) :
            /\ reaches(n)
            /\ \A m \in 0 .. (n - 1) : ~reaches(m)

divisions(point_a, point_b, point_c, smallest_voxel_dimension) ==
    DivisionsOf(RatMax({ distance_squared(point_a, point_b),
                         distance_squared(point_b, point_c),
                         distance_squared(point_c, point_a) }),
                smallest_voxel_dimension)

\* The voxels that the loops over ui and wi set for a face; none for no
\* divisions (the barycentric coordinates are then not numbers).
FaceVoxels(point_a, point_b, point_c, voxel_dimensions, n) ==
    { cartesian_point_to_absolute_voxel_coordinate(
          barycentric_to_cartesian(<<Rat(s[1], n), Rat(n - s[1] - s[2], n), Rat(s[2], n)>>,
                                   point_a, point_b, point_c),
          voxel_dimensions) :
        s \in { t \in (0 .. n) \X (0 .. n) : n > 0 /\ n - t[1] - t[2] >= 0 } }

\* The voxels that from_mesh sets.
MeshVoxels(mesh, voxel_dimensions) ==
    UNION { FaceVoxels(mesh.vertices[mesh.faces[f][1] + 1],
                       mesh.vertices[mesh.faces[f][2] + 1],
                       mesh.vertices[mesh.faces[f][3] + 1],
                       voxel_dimensions,
                       divisions(mesh.vertices[mesh.faces[f][1] + 1],
                                 mesh.vertices[mesh.faces[f][2] + 1],
                                 mesh.vertices[mesh.faces[f][3] + 1],
                                 Min2(voxel_dimensions[1],
                                      Min2(voxel_dimensions[2], voxel_dimensions[3])))) :
            f \in 1 .. Len(mesh.faces) }

\* The empty field that from_mesh allocates.
from_mesh_scalar_field(mesh, voxel_dimensions, growth_offset) ==
    from_cartesian_bounding_box(
        BoundingBox_offset(Mesh_bounding_box(mesh),
                           ToPoint(<< voxel_dimensions[1] * growth_offset,
                                      voxel_dimensions[2] * growth_offset,
                                      voxel_dimensions[3] * growth_offset >>)),
        voxel_dimensions)

\* set_value_at_absolute_voxel_coordinate panics for a voxel out of the
\* field.
from_mesh_panics(mesh, voxel_dimensions, growth_offset) ==
    \E c \in MeshVoxels(mesh, voxel_dimensions) :
        IndexIn(from_mesh_scalar_field(mesh, voxel_dimensions, growth_offset), c) = NoIndex

SetVoxels(scalar_field, coordinates, value) ==
    [scalar_field EXCEPT !.voxels =
        [i \in 1 .. Len(scalar_field.voxels) |->
            IF one_dimensional_to_absolute_voxel_coordinate(
                   i - 1, scalar_field.block_start, scalar_field.block_dimensions)
               \in coordinates
            THEN value ELSE None]]

from_mesh(mesh, voxel_dimensions, value_on_mesh_surface, growth_offset) ==
    SetVoxels(from_mesh_scalar_field(mesh, voxel_dimensions, growth_offset),
              MeshVoxels(mesh, voxel_dimensions), value_on_mesh_surface)

evaluate_voxel_count(mesh_bounding_box, voxel_dimensions) ==
    LET min_absolute == cartesian_point_to_absolute_voxel_coordinate(
                            mesh_bounding_box.minimum_point, voxel_dimensions)
        max_absolute == cartesian_point_to_absolute_voxel_coordinate(
                            mesh_bounding_box.maximum_point, voxel_dimensions)
    IN  Product(VecAdd(VecSub(max_absolute, min_absolute), <<1, 1, 1>>))

(***************************************************************************)
(* Mesher: ScalarField::to_mesh                                            *)
(***************************************************************************)
Plane_new(origin, x_axis, y_axis) ==
    [origin |-> origin, x_axis |-> x_axis, y_axis |-> y_axis]

Plane_from_origin_and_plane(origin, plane) ==
    [plane EXCEPT !.origin = origin]

\* A corner of the rectangle of the given size around the origin of a plane;
\* sx and sy are -1 or 1.
PlaneCorner(plane, scale, sx, sy) ==
    PointAdd(plane.origin,
             PointAdd(PointScale(RatMul(Rat(sx, 2), scale[1]), ToPoint(plane.x_axis)),
                      PointScale(RatMul(Rat(sy, 2), scale[2]), ToPoint(plane.y_axis))))

\* A rectangle of two triangles; the faces hold indices (from 0) of vertices.
create_mesh_plane(plane, scale) ==
    [ vertices |-> << PlaneCorner(plane, scale, -1, -1), PlaneCorner(plane, scale, 1, -1),
                      PlaneCorner(plane, scale, 1, 1), PlaneCorner(plane, scale, -1, 1) >>,
      faces |-> << <<0, 1, 2>>, <<2, 3, 0>> >> ]

EmptyMesh == [vertices |-> <<>>, faces |-> <<>>]

OffsetFace(face, offset) == <<face[1] + offset, face[2] + offset, face[3] + offset>>

\* Two meshes in one: the faces of the second refer to its vertices after
\* the vertices of the first.
JoinTwo(first, second) ==
    [ vertices |-> first.vertices \o second.vertices,
      faces |-> first.faces \o [f \in 1 .. Len(second.faces) |->
                                  OffsetFace(second.faces[f], Len(first.vertices))] ]

\* The meshes from..to of the list in one mesh, in their order.
RECURSIVE JoinRange(_, _, _)
JoinRange(meshes, from, to) ==
    IF from = to THEN meshes[from]
    ELSE JoinTwo(JoinRange(meshes, from, (from + to) \div 2),
                 JoinRange(meshes, ((from + to) \div 2) + 1, to))

\* The meshes one after another in one mesh: the faces of a mesh refer to
\* its vertices after the vertices of the meshes before it.
join_multiple_meshes(meshes) ==
    IF meshes = <<>> THEN EmptyMesh ELSE JoinRange(meshes, 1, Len(meshes))

\* Two vertices are welded when they are not farther apart than the tolerance.
WithinTolerance(a, b, tolerance) ==
    \/ a = b
    \/ /\ \A axis \in 1..3 :
            /\ RatLe(RatSub(a[axis], b[axis]), tolerance)
            /\ RatLe(RatSub(b[axis], a[axis]), tolerance)
       /\ RatLe(distance_squared(a, b), RatMul(tolerance, tolerance))

\* For each vertex, the first vertex (index from 1) at the same point.
FirstEqual(vertices) ==
    <<>> \o [i \in 1 .. Len(vertices) |->
                SetMin({ j \in 1 .. i : vertices[j] = vertices[i] })]

\* For each vertex that is the first at its point, the first vertex within
\* the tolerance of it.
FirstNear(vertices, first_equal, tolerance) ==
    <<>> \o [i \in 1 .. Len(vertices) |->
                IF first_equal[i] # i THEN first_equal[i]
                ELSE SetMin({ j \in 1 .. i :
                                /\ first_equal[j] = j
                                /\ WithinTolerance(vertices[j], vertices[i], tolerance) })]

FirstWithinOf(first_equal, first_near) ==
    <<>> \o [i \in 1 .. Len(first_equal) |-> first_near[first_equal[i]]]

FirstWithinFrom(vertices, first_equal, tolerance) ==
    FirstWithinOf(first_equal, FirstNear(vertices, first_equal, tolerance))

\* For each vertex, the first vertex (index from 1) within the tolerance of
\* it: the vertex it is merged into.
FirstWithin(vertices, tolerance) ==
    FirstWithinFrom(vertices, FirstEqual(vertices), tolerance)

\* The vertices that are kept, in their order.
KeptVertices(vertices, first) ==
    LET kept == SelectSeq([i \in 1 .. Len(vertices) |-> i], LAMBDA i : first[i] = i)
    IN  <<>> \o [k \in 1 .. Len(kept) |-> vertices[kept[k]]]

\* For each vertex, the index (from 0) among the kept vertices of the vertex
\* it is merged into.
WeldedIndices(first) ==
    <<>> \o [i \in 1 .. Len(first) |->
                Cardinality({ j \in 1 .. first[i] : first[j] = j }) - 1]

IsDegenerate(face) == face[1] = face[2] \/ face[2] = face[3] \/ face[3] = face[1]

WeldFaces(faces, indices) ==
    SelectSeq([f \in 1 .. Len(faces) |->
                  << indices[faces[f][1] + 1], indices[faces[f][2] + 1],
                     indices[faces[f][3] + 1] >>],
              LAMBDA face : ~IsDegenerate(face))

WeldedMesh(vertices, faces_purged) ==
    IF faces_purged = <<>> THEN None
    ELSE [vertices |-> vertices, faces |-> faces_purged]

WeldWith(mesh, first) ==
    WeldedMesh(KeptVertices(mesh.vertices, first),
               WeldFaces(mesh.faces, WeldedIndices(first)))

\* A weld that merges no vertices.
weld_nothing(mesh, tolerance) ==
    WeldedMesh(mesh.vertices, mesh.faces)

\* The mesh with the vertices within the tolerance merged into the first of
\* them and the faces that collapse removed; None if no face is left.
weld(mesh, tolerance) ==
    WeldWith(mesh, FirstWithin(mesh.vertices, tolerance))

\* The geometry helpers of to_mesh, in the order top, bottom, right, left,
\* front, rear; sides names the two voxel dimensions of the wall.
neighbor_helpers ==
    << [direction_to_neighbor |-> <<0, 0, 1>>, sides |-> <<1, 2>>,
        plane |-> Plane_new(ToPoint(<<0, 0, 0>>), <<1, 0, 0>>, <<0, 1, 0>>)],
       [direction_to_neighbor |-> <<0, 0, -1>>, sides |-> <<1, 2>>,
        plane |-> Plane_new(ToPoint(<<0, 0, 0>>), <<1, 0, 0>>, <<0, -1, 0>>)],
       [direction_to_neighbor |-> <<1, 0, 0>>, sides |-> <<2, 3>>,
        plane |-> Plane_new(ToPoint(<<0, 0, 0>>), <<0, 1, 0>>, <<0, 0, 1>>)],
       [direction_to_neighbor |-> <<-1, 0, 0>>, sides |-> <<2, 3>>,
        plane |-> Plane_new(ToPoint(<<0, 0, 0>>), <<0, -1, 0>>, <<0, 0, 1>>)],
       [direction_to_neighbor |-> <<0, -1, 0>>, sides |-> <<1, 3>>,
        plane |-> Plane_new(ToPoint(<<0, 0, 0>>), <<1, 0, 0>>, <<0, 0, 1>>)],
       [direction_to_neighbor |-> <<0, 1, 0>>, sides |-> <<1, 3>>,
        plane |-> Plane_new(ToPoint(<<0, 0, 0>>), <<-1, 0, 0>>, <<0, 0, 1>>)] >>

\* Half of the voxel dimension towards the neighbor.
direction_to_wall(helper, voxel_dimensions) ==
    << Rat(helper.direction_to_neighbor[1] * voxel_dimensions[1], 2),
       Rat(helper.direction_to_neighbor[2] * voxel_dimensions[2], 2),
       Rat(helper.direction_to_neighbor[3] * voxel_dimensions[3], 2) >>

\* The wall of the voxel at the index towards the neighbor of the helper,
\* with the voxel and the direction it was made for.
VoxelWall(sf, one_dimensional, helper) ==
    [ absolute_coordinate |->
          one_dimensional_to_absolute_voxel_coordinate(
              one_dimensional, sf.block_start, sf.block_dimensions),
      direction_to_neighbor |-> helper.direction_to_neighbor,
      mesh |-> create_mesh_plane(
                   Plane_from_origin_and_plane(
                       PointAdd(ToPoint(one_dimensional_to_cartesian_coordinate(
                                            one_dimensional, sf.block_start,
                                            sf.block_dimensions, sf.voxel_dimensions)),
                                direction_to_wall(helper, sf.voxel_dimensions)),
                       helper.plane),
                   << Int2Rat(sf.voxel_dimensions[helper.sides[1]]),
                      Int2Rat(sf.voxel_dimensions[helper.sides[2]]) >>) ]

\* A loop that makes every wall of a voxel within range.
IsWallOfVolume(sf, volume_value_range, one_dimensional, helper) ==
    is_voxel_within_range(sf.voxels[one_dimensional + 1], volume_value_range)

\* The loop of to_mesh decides to make the wall of a voxel towards a neighbor.
IsWallMaterialized(sf, volume_value_range, one_dimensional, helper) ==
    /\ is_voxel_within_range(sf.voxels[one_dimensional + 1], volume_value_range)
    /\ ~is_voxel_within_range(
           value_at_absolute_voxel_coordinate(
               sf,
               VecAdd(one_dimensional_to_absolute_voxel_coordinate(
                          one_dimensional, sf.block_start, sf.block_dimensions),
                      helper.direction_to_neighbor)),
           volume_value_range)

\* plane_meshes after the loop: voxels in the order of the voxel map, the
\* helpers of a voxel in their order.
plane_meshes_of(sf, volume_value_range) ==
    LET steps == [k \in 1 .. (6 * Len(sf.voxels)) |-> k - 1]
        made == SelectSeq(steps,
                          LAMBDA k : IsWallMaterialized(sf, volume_value_range, k \div 6,
                                                        neighbor_helpers[(k % 6) + 1]))
    IN  <<>> \o [i \in 1 .. Len(made) |->
                    VoxelWall(sf, made[i] \div 6, neighbor_helpers[(made[i] % 6) + 1])]

min_voxel_dimension(sf) ==
    Min2(sf.voxel_dimensions[1], Min2(sf.voxel_dimensions[2], sf.voxel_dimensions[3]))

\* to_mesh that goes on to the loop and the weld for a block of no voxels.
to_mesh_without_early_return(sf, volume_value_range) ==
    LET plane_meshes == plane_meshes_of(sf, volume_value_range)
    IN  [ plane_meshes |-> plane_meshes,
          welded |-> TRUE,
          mesh |-> weld(join_multiple_meshes(<<>> \o [i \in 1 .. Len(plane_meshes) |-> plane_meshes[i].mesh]),
                        Rat(min_voxel_dimension(sf), 4)) ]

\* What to_mesh returns (mesh, None for no mesh), with the walls it made and
\* whether it called weld.
to_mesh(sf, volume_value_range) ==
    IF \/ sf.block_dimensions[1] = 0
       \/ sf.block_dimensions[2] = 0
       \/ sf.block_dimensions[3] = 0
    THEN [plane_meshes |-> <<>>, welded |-> FALSE, mesh |-> None]
    ELSE LET plane_meshes == plane_meshes_of(sf, volume_value_range)
         IN  [ plane_meshes |-> plane_meshes,
               welded |-> TRUE,
               mesh |-> weld(join_multiple_meshes(<<>> \o [i \in 1 .. Len(plane_meshes) |-> plane_meshes[i].mesh]),
                             Rat(min_voxel_dimension(sf), 4)) ]

(***************************************************************************)
(* Pipeline steps: FuncBooleanUnion::call, FuncBooleanDifference::call      *)
(* (src/src/interpreter_funcs).  The steps call the engine with i16 voxel  *)
(* values; the values are the whole numbers among the rationals here.      *)
(***************************************************************************)
VOXEL_COUNT_THRESHOLD == 50000

\* u32::MAX as the 32 bit pattern read in two's complement: products of it
\* and of small numbers wrap to the products of -1.
U32_MAX == -1

\* (bbox_diagonal / voxel_dimension).ceil() as u32.  The cast saturates: the
\* quotient by 0.0 is infinite and becomes u32::MAX, 0.0 / 0.0 is NaN and
\* becomes 0.
CeilAsU32(length, voxel_dimension) ==
    IF voxel_dimension = 0
    THEN IF length[1] = 0 THEN 0 ELSE U32_MAX
    ELSE RatCeil(RatDiv(length, Int2Rat(voxel_dimension)))

\* BoundingBox::union of the boxes of two meshes, and its diagonal.
BoundingBox_union_of_meshes(bbox1, bbox2) ==
    [ minimum_point |-> [a \in 1..3 |-> RatMin({bbox1.minimum_point[a], bbox2.minimum_point[a]})],
      maximum_point |-> [a \in 1..3 |-> RatMax({bbox1.maximum_point[a], bbox2.maximum_point[a]})] ]

BoundingBox_diagonal(bbox) == PointSub(bbox.maximum_point, bbox.minimum_point)

\* The three factors of voxel_count.
voxel_count_factors(bbox_diagonal, voxel_dimensions) ==
    [a \in 1..3 |-> CeilAsU32(bbox_diagonal[a], voxel_dimensions[a])]

\* The product of the factors does not fit u32: a factor is u32::MAX, no
\* factor is 0 and another factor is not 1.  (The other factors are small.)
voxel_count_overflows(factors) ==
    /\ \A a \in 1..3 : factors[a] # 0
    /\ \E a \in 1..3 :
        /\ factors[a] = U32_MAX
        /\ \E b \in (1..3) \ {a} : factors[b] # 1

\* voxel_count, wrapped to 32 bits (two's complement).
voxel_count(factors) == factors[1] * factors[2] * factors[3]

\* voxel_count > VOXEL_COUNT_THRESHOLD of u32 numbers.
IsLarge(count) == count < 0 \/ count > VOXEL_COUNT_THRESHOLD

\* voxel_dimensions.iter().any(|dimension| relative_eq!(*dimension, 0.0))
AnyVoxelDimensionZero(voxel_dimensions) == \E a \in 1..3 : voxel_dimensions[a] = 0

\* -growth_i16..=growth_i16
boolean_union_range(growth) ==
    [start |-> Included(Int2Rat(-growth)), end |-> Included(Int2Rat(growth))]

meshing_range(growth, fill) ==
    IF fill
    THEN [start |-> Unbounded, end |-> Included(Int2Rat(growth))]
    ELSE [start |-> Included(Int2Rat(-growth)), end |-> Included(Int2Rat(growth))]

\* ScalarField::from_mesh(mesh, voxel_dimensions, 0_i16, growth_u32) and
\* compute_distance_filed(&(0..=0)) on it.
distance_field_of_mesh(mesh, voxel_dimensions, growth) ==
    compute_distance_field(from_mesh(mesh, voxel_dimensions, Int2Rat(0), growth),
                           boolean_union_range(0))

\* What a step returns, with the field it ends with, whether it called
\* to_mesh and what to_mesh returned.
StepError(error, scalar_field) ==
    [result |-> error, scalar_field |-> scalar_field, to_mesh_called |-> FALSE]

StepPanic == [result |-> "panic", scalar_field |-> None, to_mesh_called |-> FALSE]

\* match scalar_field1.to_mesh(&meshing_range)
MeshOrWeldFailed(scalar_field, value) ==
    [ result |-> IF value.mesh = None THEN "WeldFailed" ELSE "Mesh",
      scalar_field |-> scalar_field, to_mesh_called |-> TRUE, to_mesh |-> value ]

\* The emptiness check never reports a field empty.
check_nothing_then_mesh(scalar_field, range) ==
    MeshOrWeldFailed(scalar_field, to_mesh(scalar_field, range))

\* The emptiness check and the meshing that end both steps.
check_then_mesh(scalar_field, range) ==
    IF ~contains_voxels_within_range(scalar_field, range)
    THEN StepError("EmptyScalarField", scalar_field)
    ELSE MeshOrWeldFailed(scalar_field, to_mesh(scalar_field, range))

\* The union step from the two fields on.
union_of_fields(scalar_field1, scalar_field2, growth, fill) ==
    IF boolean_union_panics(scalar_field1, boolean_union_range(growth),
                            scalar_field2, boolean_union_range(growth))
    THEN StepPanic
    ELSE check_then_mesh(boolean_union(scalar_field1, boolean_union_range(growth),
                                       scalar_field2, boolean_union_range(growth)),
                         meshing_range(growth, fill))

\* The difference step from the two fields on.
difference_of_fields(scalar_field1, scalar_field2, growth, fill) ==
    check_then_mesh(boolean_difference(scalar_field1, meshing_range(growth, fill),
                                       scalar_field2, meshing_range(growth, fill)),
                    meshing_range(growth, fill))

\* FuncBooleanUnion::call.  overflow_checks: the build panics on an
\* arithmetic overflow (debug) or wraps (release).
voxel_boolean_union(mesh1, mesh2, voxel_dimensions, growth, fill, error_if_large, overflow_checks) ==
    LET factors == voxel_count_factors(
                       BoundingBox_diagonal(BoundingBox_union_of_meshes(
                           Mesh_bounding_box(mesh1), Mesh_bounding_box(mesh2))),
                       voxel_dimensions)
    IN  IF overflow_checks /\ voxel_count_overflows(factors)
        THEN StepPanic
        ELSE IF error_if_large /\ IsLarge(voxel_count(factors))
        THEN StepError("TooManyVoxels", None)
        ELSE IF AnyVoxelDimensionZero(voxel_dimensions)
        THEN StepError("VoxelDimensionsZero", None)
        ELSE IF \/ from_mesh_panics(mesh1, voxel_dimensions, growth)
                \/ from_mesh_panics(mesh2, voxel_dimensions, growth)
        THEN StepPanic
        ELSE union_of_fields(distance_field_of_mesh(mesh1, voxel_dimensions, growth),
                             distance_field_of_mesh(mesh2, voxel_dimensions, growth),
                             growth, fill)

\* FuncBooleanDifference::call
voxel_boolean_difference(mesh1, mesh2, voxel_dimensions, growth, fill) ==
    IF AnyVoxelDimensionZero(voxel_dimensions)
    THEN StepError("VoxelDimensionsZero", None)
    ELSE IF \/ from_mesh_panics(mesh1, voxel_dimensions, growth)
            \/ from_mesh_panics(mesh2, voxel_dimensions, growth)
    THEN StepPanic
    ELSE difference_of_fields(distance_field_of_mesh(mesh1, voxel_dimensions, growth),
                              distance_field_of_mesh(mesh2, voxel_dimensions, growth),
                              growth, fill)

(***************************************************************************)
(* Inputs                                                                  *)
(***************************************************************************)
\* Largest number of single voxel writes that build an input field.
MaxWrites == 1
\* Largest number of operations in a sequence of operations on one field.
MaxOps == 3

Zero == <<0, 1>>
One == <<1, 1>>
Two == <<2, 1>>

\* What a caller writes into a voxel.
CellValues == {None, Zero, One}

Range00 == [start |-> Included(Zero), end |-> Included(Zero)]   \* 0.0..=0.0
Range12 == [start |-> Included(One), end |-> Included(Two)]     \* 1.0..=2.0
Range02 == [start |-> Included(Zero), end |-> Included(Two)]    \* 0.0..=2.0
Range21 == [start |-> Included(Two), end |-> Included(One)]     \* 2.0..=1.0, empty
RangeFull == [start |-> Unbounded, end |-> Unbounded]           \* (Unbounded, Unbounded)

\* The fields that at most k calls of set_value_at_absolute_voxel_coordinate
\* make of the fields F.
RECURSIVE Written(_, _)
Written(F, k) ==
    IF k = 0 THEN F
    ELSE Written(F \cup UNION { { set_value_at_absolute_voxel_coordinate(
                                      f,
                                      one_dimensional_to_absolute_voxel_coordinate(
                                          i, f.block_start, f.block_dimensions),
                                      v) :
                                    i \in Indices(f), v \in CellValues } : f \in F },
                 k - 1)

\* The fields that new and fill_with make of blocks <<block_start,
\* block_dimensions>> and of voxel dimensions.
Filled(blocks, voxel_dimensions) ==
    { fill_with(new(b[1], b[2], d), v) :
        b \in blocks, d \in voxel_dimensions, v \in CellValues }

\* Inputs of the distance transform.  A block needs an extent of three on
\* every axis to enclose a voxel.
DistanceFieldInputs ==
    Written(Filled({ << <<0, 0, 0>>, <<3, 3, 3>> >> }, {<<1, 1, 1>>}), MaxWrites)
    \cup Written(Filled({ << <<-1, 2, 0>>, <<2, 3, 1>> >>,
                          << <<1, 0, -2>>, <<1, 2, 4>> >>,
                          << <<0, 0, 0>>, <<0, 0, 0>> >> },
                        {<<1, 1, 1>>}),
                 MaxWrites + 1)

DistanceFieldRanges == {Range00, Range12}

\* Inputs of the distance transform whose voxels and neighbor offsets are
\* visited in any order: blocks of one layer with one or two volume voxels,
\* at a corner, in the middle and at far ends.
DistanceStepAnyOrderInputs ==
    { [new(<<0, 0, 0>>, <<3, 2, 1>>, <<1, 1, 1>>) EXCEPT !.voxels[1] = Zero],
      [new(<<0, 0, 0>>, <<3, 2, 1>>, <<1, 1, 1>>) EXCEPT !.voxels[2] = One, !.voxels[6] = Zero],
      [new(<<-1, 2, 0>>, <<2, 1, 2>>, <<2, 1, 3>>) EXCEPT !.voxels[1] = Zero, !.voxels[4] = Two],
      new(<<1, 0, 0>>, <<1, 1, 2>>, <<1, 1, 1>>) }

\* The inputs of at most four voxels among them.
DistanceStepFewOrdersInputs == { sf \in DistanceStepAnyOrderInputs : Len(sf.voxels) <= 4 }

\* Inputs whose voxels are visited in the order of the code only: the voxel
\* in the middle of a block is enclosed by its six neighbors, or by five of
\* them; a block of no voxels.
DistanceStepInputs ==
    DistanceStepAnyOrderInputs
    \cup { [new(<<0, 0, 0>>, <<3, 3, 3>>, <<1, 1, 1>>) EXCEPT
               !.voxels = [i \in 1..27 |-> IF i - 1 \in S THEN Zero ELSE None]] :
             S \in { {4, 10, 12, 14, 16, 22}, {4, 10, 12, 14, 16}, {13} } }
    \cup { new(<<0, 0, 0>>, <<0, 0, 0>>, <<1, 1, 1>>) }

\* Inputs of the boolean operations: self, and other.
BooleanSelfInputs ==
    Written(Filled({ << <<0, 0, 0>>, <<2, 2, 1>> >>,
                     << <<-1, 1, 0>>, <<2, 1, 2>> >>,
                     << <<2, 0, 0>>, <<1, 1, 1>> >>,
                     << <<0, 0, 0>>, <<0, 0, 0>> >> },
                   {<<1, 1, 1>>}),
            MaxWrites)

\* other: a block that overlaps the blocks of self, filled or with one hole;
\* single voxels of the same and of twice the voxel size, next to and far
\* from the blocks of self.
BooleanOtherInputs ==
    Written({ fill_with(new(<<1, 0, 0>>, <<2, 2, 1>>, <<1, 1, 1>>), Zero) }, 1)
    \cup Filled({ << <<1, 0, 0>>, <<2, 2, 1>> >>, << <<-1, 1, 1>>, <<2, 1, 2>> >> },
                {<<1, 1, 1>>})
    \cup { fill_with(new(<<1, 0, 0>>, <<1, 1, 1>>, d), Zero) :
             d \in {<<1, 1, 1>>, <<2, 2, 2>>} }
    \cup { fill_with(new(<<4, 0, 0>>, <<1, 1, 1>>, <<1, 1, 1>>), Zero) }

\* Pairs <<volume_value_range_self, volume_value_range_other>>.
BooleanRanges ==
    { <<Range00, Range00>>, <<Range12, Range00>>, <<Range02, Range12>>,
      <<Range21, Range00>>,
      <<RangeFull, RangeFull>>, <<RangeFull, Range00>>, <<Range00, RangeFull>> }

\* The same range for self and for other, in operations of a field with a
\* copy of itself.
BooleanIdenticalRanges == { <<Range00, Range00>>, <<Range12, Range12>>, <<RangeFull, RangeFull>> }

\* Largest extent of a block on an axis in the conversions of coordinates.
MaxDimension == 4

\* Block dimensions with non-zero extents.
ConversionDimensions ==
    { <<x, y, z>> : x \in 1 .. MaxDimension, y \in 1 .. MaxDimension, z \in 1 .. MaxDimension }

\* Relative coordinates within a block and up to one voxel out of it.
ConversionRelativeCoordinates(block_dimensions) ==
    { <<x, y, z>> : x \in -1 .. block_dimensions[1],
                    y \in -1 .. block_dimensions[2],
                    z \in -1 .. block_dimensions[3] }

\* Block starts of the blocks in the conversions of coordinates.
ConversionBlockStarts == { <<0, 0, 0>>, <<2, -1, -3>> }

\* Inputs of the mesher: a block of two voxels along every axis, a block away
\* from the origin of voxels that are not cubes, and blocks of no voxels.
MeshInputs ==
    Written(Filled({ << <<0, 0, 0>>, <<2, 2, 2>> >> }, {<<1, 1, 1>>}), MaxWrites)
    \cup Written(Filled({ << <<-1, 2, 0>>, <<1, 2, 2>> >> }, {<<2, 1, 3>>}), MaxWrites + 1)
    \cup Filled({ << <<1, 0, 0>>, <<0, 2, 1>> >>, << <<0, 0, 0>>, <<0, 0, 0>> >> }, {<<1, 1, 1>>})

MeshRanges == {Range00, Range12, RangeFull}

\* Inputs of the rasterizer: the coordinates of the vertices are halves and
\* thirds around the origin; a mesh is one triangle (also a degenerate one)
\* or two triangles that share an edge.
MeshPoints ==
    { << <<0, 1>>, <<0, 1>>, <<0, 1>> >>,
      << <<1, 2>>, <<0, 1>>, <<-1, 3>> >>,
      << <<-3, 2>>, <<2, 3>>, <<0, 1>> >>,
      << <<5, 3>>, <<-1, 2>>, <<1, 1>> >>,
      << <<1, 1>>, <<5, 2>>, <<-4, 3>> >> }

TriangleMeshes ==
    { [vertices |-> <<a, b, c>>, faces |-> << <<0, 1, 2>> >>] :
        a \in MeshPoints, b \in MeshPoints, c \in MeshPoints }

RasterizerVoxelDimensions == { <<1, 1, 1>>, <<2, 1, 3>> }

\* The growth offsets: none and one voxel.
RasterizerGrowthOffsets == {0, 1}

\* A box mesh (primitive::create_box): the cube of the side from the corner,
\* eight vertices and two triangles on each of its six sides.  Vertex
\* x + 2y + 4z is the corner moved by the side along the axes with bit 1.
CubeMesh(corner, side) ==
    [ vertices |-> [i \in 1..8 |->
                       ToPoint(<< corner[1] + side * ((i - 1) % 2),
                                  corner[2] + side * (((i - 1) \div 2) % 2),
                                  corner[3] + side * ((i - 1) \div 4) >>)],
      faces |-> << <<0, 2, 3>>, <<0, 3, 1>>, <<4, 5, 7>>, <<4, 7, 6>>,
                   <<0, 1, 5>>, <<0, 5, 4>>, <<2, 7, 3>>, <<2, 6, 7>>,
                   <<0, 4, 6>>, <<0, 6, 2>>, <<1, 3, 7>>, <<1, 7, 5>> >> ]

\* The cubes with the corners at voxel centers that span two voxels of size
\* (1, 1, 1) on every axis.
CubesOfTwoVoxels == { CubeMesh(<<0, 0, 0>>, 1), CubeMesh(<<1, 0, 0>>, 1), CubeMesh(<<-2, 1, -1>>, 1) }

\* The face with all three vertices at one voxel center.
PointMesh(point) == [vertices |-> <<ToPoint(point), ToPoint(point), ToPoint(point)>>, faces |-> << <<0, 1, 2>> >>]

\* A face within the voxel at a voxel center.
SmallMesh(point) ==
    [ vertices |-> << ToPoint(point),
                      PointAdd(ToPoint(point), << <<1, 4>>, <<0, 1>>, <<0, 1>> >>),
                      PointAdd(ToPoint(point), << <<0, 1>>, <<1, 4>>, <<0, 1>> >>) >>,
      faces |-> << <<0, 1, 2>> >> ]

\* Meshes of the pipeline steps: a cube, a face of no extent (it is not
\* sampled), faces within one voxel next to and far from the cube, and a
\* face between voxel centers.
PipelineMeshes ==
    { CubeMesh(<<0, 0, 0>>, 1),
      PointMesh(<<0, 0, 0>>), SmallMesh(<<2, 1, 0>>), SmallMesh(<<4, 0, 0>>),
      [vertices |-> << << <<1, 2>>, <<0, 1>>, <<-1, 3>> >>,
                       << <<2, 3>>, <<-1, 2>>, <<0, 1>> >>,
                       << <<0, 1>>, <<0, 1>>, <<0, 1>> >> >>,
       faces |-> << <<0, 1, 2>> >>] }

\* Voxel dimensions of the pipeline steps, with dimensions of 0.0.
PipelineVoxelDimensions == { <<1, 1, 1>>, <<2, 1, 3>>, <<0, 1, 1>>, <<1, 0, 0>> }

PipelineGrowths == {0, 1}

\* Inputs of sequences of operations.
SequenceBlocks ==
    { << <<0, 0, 0>>, <<2, 1, 1>> >>,
      << <<1, 0, 0>>, <<1, 2, 1>> >>,
      << <<0, 0, 0>>, <<0, 0, 0>> >>,
      << <<1, 0, 0>>, <<0, 0, 0>> >>,
      << <<0, 0, 0>>, <<0, 2, 1>> >> }

SequenceCoordinates ==
    { <<0, 0, 0>>, <<1, 0, 0>>, <<1, 1, 0>>, <<2, 0, 0>>, <<-1, 0, 0>> }

SequenceValues == CellValues

SequenceOtherInputs ==
    { fill_with(new(<<1, 0, 0>>, <<1, 2, 1>>, <<1, 1, 1>>), Zero) }

SequenceRanges == {Range00, Range12}

SequenceRangePairs == { <<Range00, Range00>>, <<Range12, Range00>> }

(***************************************************************************)
(* Operations                                                              *)
(***************************************************************************)
NoOp == [name |-> "new"]

\* A field right after construction.
Constructed(inputs) ==
    /\ self \in inputs
    /\ pre = self
    /\ op = NoOp
    /\ consulted = {}
    /\ status = "ok"
    /\ nops = 0

\* An operation can be called: the program has not aborted (and the bound of
\* the model on the number of operations is not reached).
Callable(limit) ==
    /\ status = "ok"
    /\ nops < limit

\* What every operation that returns does to the history.
Returned ==
    /\ pre' = self
    /\ status' = "ok"
    /\ nops' = nops + 1

\* An operation that panics: the program aborts, the field is not used again.
Panicked ==
    /\ pre' = self
    /\ self' = self
    /\ consulted' = {}
    /\ status' = "panicked"
    /\ nops' = nops + 1

ValueAt(limit) ==
    /\ Callable(limit)
    /\ \E absolute_coordinate \in SequenceCoordinates :
        IF value_at_absolute_voxel_coordinate_panics(self, absolute_coordinate)
        THEN /\ Panicked
             /\ op' = [name |-> "value_at_absolute_voxel_coordinate",
                       absolute_coordinate |-> absolute_coordinate, result |-> None]
        ELSE /\ Returned
             /\ consulted' = {}
             /\ op' = [name |-> "value_at_absolute_voxel_coordinate",
                       absolute_coordinate |-> absolute_coordinate,
                       result |-> value_at_absolute_voxel_coordinate(
                                      self, absolute_coordinate)]
             /\ self' = self

SetValueAt(limit) ==
    /\ Callable(limit)
    /\ \E absolute_coordinate \in SequenceCoordinates, value \in SequenceValues :
        /\ op' = [name |-> "set_value_at_absolute_voxel_coordinate",
                  absolute_coordinate |-> absolute_coordinate, value |-> value]
        /\ IF absolute_voxel_to_one_dimensional_coordinate(
                  absolute_coordinate, self.block_start, self.block_dimensions) = NoIndex
           THEN Panicked
           ELSE /\ Returned
                /\ consulted' = {}
                /\ self' = set_value_at_absolute_voxel_coordinate(
                               self, absolute_coordinate, value)

FillWith(limit) ==
    /\ Callable(limit)
    /\ \E value \in SequenceValues :
        /\ Returned
        /\ consulted' = {}
        /\ op' = [name |-> "fill_with", value |-> value]
        /\ self' = fill_with(self, value)

Wipe(limit) ==
    /\ Callable(limit)
    /\ Returned
    /\ consulted' = {}
    /\ op' = [name |-> "wipe"]
    /\ self' = wipe(self)

Resize(limit) ==
    /\ Callable(limit)
    /\ \E b \in SequenceBlocks :
        /\ Returned
        /\ consulted' = {}
        /\ op' = [name |-> "resize", resized_block_start |-> b[1],
                  resized_block_dimensions |-> b[2]]
        /\ self' = resize(self, b[1], b[2])

ShrinkToFit(limit, ranges) ==
    /\ Callable(limit)
    /\ \E volume_value_range \in ranges :
        /\ Returned
        /\ consulted' = {}
        /\ op' = [name |-> "shrink_to_fit", volume_value_range |-> volume_value_range]
        /\ self' = shrink_to_fit(self, volume_value_range)

ComputeDistanceField(limit, ranges) ==
    /\ Callable(limit)
    /\ \E volume_value_range \in ranges :
        /\ Returned
        /\ consulted' = {}
        /\ op' = [name |-> "compute_distance_field",
                  volume_value_range |-> volume_value_range]
        /\ self' = compute_distance_field(self, volume_value_range)

BooleanIntersection(limit, others, ranges) ==
    /\ Callable(limit)
    /\ \E other \in others, range \in ranges :
        LET range_self == range[1]
            range_other == range[2]
        IN
        /\ Returned
        /\ consulted' = {}
        /\ op' = [name |-> "boolean_intersection", other |-> other,
                  volume_value_range_self |-> range_self,
                  volume_value_range_other |-> range_other]
        /\ self' = boolean_intersection(self, range_self, other, range_other)

BooleanUnion(limit, others, ranges) ==
    /\ Callable(limit)
    /\ \E other \in others, range \in ranges :
        LET range_self == range[1]
            range_other == range[2]
        IN
        /\ op' = [name |-> "boolean_union", other |-> other,
                  volume_value_range_self |-> range_self,
                  volume_value_range_other |-> range_other]
        /\ IF boolean_union_panics(self, range_self, other, range_other)
           THEN Panicked
           ELSE /\ Returned
                /\ consulted' = {}
                /\ self' = boolean_union(self, range_self, other, range_other)

BooleanDifference(limit, others, ranges) ==
    /\ Callable(limit)
    /\ \E other \in others, range \in ranges :
        LET range_self == range[1]
            range_other == range[2]
        IN
        /\ Returned
        /\ consulted' = difference_consulted(self, range_self)
        /\ op' = [name |-> "boolean_difference", other |-> other,
                  volume_value_range_self |-> range_self,
                  volume_value_range_other |-> range_other]
        /\ self' = boolean_difference(self, range_self, other, range_other)

RelativeToOneDimensional(limit) ==
    /\ Callable(limit)
    /\ \E relative_coordinate \in ConversionRelativeCoordinates(self.block_dimensions) :
        /\ Returned
        /\ consulted' = {}
        /\ op' = [name |-> "relative_voxel_to_one_dimensional_coordinate",
                  relative_coordinate |-> relative_coordinate,
                  result |-> relative_voxel_to_one_dimensional_coordinate(
                                 relative_coordinate, self.block_dimensions)]
        /\ self' = self

OneDimensionalToRelative(limit) ==
    /\ Callable(limit)
    /\ \E one_dimensional_coordinate \in Indices(self) :
        /\ Returned
        /\ consulted' = {}
        /\ op' = [name |-> "one_dimensional_to_relative_voxel_coordinate",
                  one_dimensional_coordinate |-> one_dimensional_coordinate,
                  result |-> one_dimensional_to_relative_voxel_coordinate(
                                 one_dimensional_coordinate, self.block_dimensions)]
        /\ self' = self

AbsoluteToOneDimensional(limit) ==
    /\ Callable(limit)
    /\ \E relative_coordinate \in ConversionRelativeCoordinates(self.block_dimensions) :
        LET absolute_coordinate == VecAdd(relative_coordinate, self.block_start)
        IN  /\ Returned
            /\ consulted' = {}
            /\ op' = [name |-> "absolute_voxel_to_one_dimensional_coordinate",
                      absolute_coordinate |-> absolute_coordinate,
                      result |-> absolute_voxel_to_one_dimensional_coordinate(
                                     absolute_coordinate, self.block_start,
                                     self.block_dimensions)]
            /\ self' = self

ToMesh(limit, ranges) ==
    /\ Callable(limit)
    /\ \E volume_value_range \in ranges :
        /\ Returned
        /\ consulted' = {}
        /\ op' = [name |-> "to_mesh", volume_value_range |-> volume_value_range,
                  result |-> to_mesh(self, volume_value_range)]
        /\ self' = self

\* from_mesh makes a new field: it is the first operation.
FromMesh(meshes, voxels, growth_offsets) ==
    /\ Callable(1)
    /\ \E mesh \in meshes, voxel_dimensions \in voxels, growth_offset \in growth_offsets :
        /\ op' = [name |-> "from_mesh", mesh |-> mesh,
                  voxel_dimensions |-> voxel_dimensions,
                  value_on_mesh_surface |-> Zero, growth_offset |-> growth_offset]
        /\ pre' = self
        /\ consulted' = {}
        /\ nops' = nops + 1
        /\ IF from_mesh_panics(mesh, voxel_dimensions, growth_offset)
           THEN /\ status' = "panicked"
                /\ self' = from_mesh_scalar_field(mesh, voxel_dimensions, growth_offset)
           ELSE /\ status' = "ok"
                /\ self' = from_mesh(mesh, voxel_dimensions, Zero, growth_offset)

\* evaluate_voxel_count for the mesh that the field was made of.
EvaluateVoxelCount(limit) ==
    /\ Callable(limit)
    /\ op.name = "from_mesh"
    /\ Returned
    /\ consulted' = {}
    /\ op' = [name |-> "evaluate_voxel_count", mesh |-> op.mesh,
              voxel_dimensions |-> op.voxel_dimensions,
              growth_offset |-> op.growth_offset,
              result |-> evaluate_voxel_count(Mesh_bounding_box(op.mesh),
                                              op.voxel_dimensions)]
    /\ self' = self

\* compute_distance_field is called; its statements follow one at a time.
\* orders: "source" visits the voxels and the neighbor offsets in the order
\* of the code, "any" in any order.
StartDistanceField(ranges, any_order_inputs) ==
    /\ Callable(1)
    /\ \E volume_value_range \in ranges, orders \in {"source", "any"} :
        /\ orders = "any" => self \in any_order_inputs
        /\ op' = [name |-> "compute_distance_field_steps",
                  volume_value_range |-> volume_value_range,
                  orders |-> orders, loop |-> loop_at_start(self)]
        /\ pre' = self
        /\ self' = self
        /\ consulted' = {}
        /\ status' = "ok"
        /\ nops' = nops + 1

\* compute_distance_field is at the statement pc.
AtStatement(pc) ==
    /\ status = "ok"
    /\ op.name = "compute_distance_field_steps"
    /\ op.loop.pc = pc

\* The elements of S that can be next: the least in the order of the code.
NextIn(S) == IF op.orders = "source" THEN {SetMin(S)} ELSE S

\* A statement leaves the loop state and the field.
Stepped(loop, sf) ==
    /\ op' = [op EXCEPT !.loop = loop]
    /\ self' = sf
    /\ UNCHANGED <<pre, consulted, status, nops>>

ScanVoxel ==
    /\ AtStatement("scan")
    /\ \E one_dimensional \in NextIn(op.loop.unscanned) :
        Stepped(scanned(scan_voxel(self, op.volume_value_range, op.loop, one_dimensional),
                        one_dimensional),
                self)

PopToFindOuter ==
    /\ AtStatement("find_outer")
    /\ op.loop.one_dimensional = NoIndex
    /\ Stepped(pop_to_find_outer(op.loop), self)

FindOuterNeighbor ==
    /\ AtStatement("find_outer")
    /\ op.loop.one_dimensional # NoIndex
    /\ \E k \in NextIn(op.loop.unexamined) :
        Stepped(examined(find_outer_neighbor(self, op.volume_value_range, op.loop, k), k),
                self)

PopToComputeDistance ==
    /\ AtStatement("compute_distance")
    /\ op.loop.one_dimensional = NoIndex
    /\ Stepped(pop_to_compute_distance(op.loop), self)

ComputeDistanceNeighbor ==
    /\ AtStatement("compute_distance")
    /\ op.loop.one_dimensional # NoIndex
    /\ \E k \in NextIn(op.loop.unexamined) :
        Stepped(examined(compute_distance_neighbor(self, op.volume_value_range, op.loop, k), k),
                with_distance_written(self, op.loop, k))

\* What a pipeline step leaves: the field it ended with (none is made before
\* the rasterization) and what it returned.
StepReturns(call, outcome) ==
    /\ Callable(1)
    /\ op' = [call |-> call, name |-> call.name, outcome |-> outcome]
    /\ pre' = self
    /\ consulted' = {}
    /\ nops' = nops + 1
    /\ status' = IF outcome.result = "panic" THEN "panicked" ELSE "ok"
    /\ self' = IF outcome.scalar_field = None THEN self ELSE outcome.scalar_field

\* The builds in which the count of voxels of the two meshes is computed.
OverflowChecks(mesh1, mesh2, voxel_dimensions) ==
    IF voxel_count_overflows(voxel_count_factors(
           BoundingBox_diagonal(BoundingBox_union_of_meshes(
               Mesh_bounding_box(mesh1), Mesh_bounding_box(mesh2))),
           voxel_dimensions))
    THEN BOOLEAN
    ELSE {TRUE}

VoxelBooleanUnion(meshes, voxels, growths) ==
    /\ Callable(1)
    /\ \E mesh1 \in meshes, mesh2 \in meshes, voxel_dimensions \in voxels, growth \in growths :
       \E fill \in BOOLEAN, error_if_large \in BOOLEAN :
       \E overflow_checks \in OverflowChecks(mesh1, mesh2, voxel_dimensions) :
        StepReturns([name |-> "voxel_boolean_union", mesh1 |-> mesh1, mesh2 |-> mesh2,
                     voxel_dimensions |-> voxel_dimensions, growth |-> growth,
                     fill |-> fill, error_if_large |-> error_if_large],
                    voxel_boolean_union(mesh1, mesh2, voxel_dimensions, growth, fill,
                                        error_if_large, overflow_checks))

VoxelBooleanDifference(meshes, voxels, growths) ==
    /\ Callable(1)
    /\ \E mesh1 \in meshes, mesh2 \in meshes, voxel_dimensions \in voxels, growth \in growths :
       \E fill \in BOOLEAN :
        StepReturns([name |-> "voxel_boolean_difference", mesh1 |-> mesh1, mesh2 |-> mesh2,
                     voxel_dimensions |-> voxel_dimensions, growth |-> growth,
                     fill |-> fill],
                    voxel_boolean_difference(mesh1, mesh2, voxel_dimensions, growth, fill))

\* Any sequence of at most MaxOps operations on a new field.  The boolean
\* operations take a set of pairs <<volume_value_range_self,
\* volume_value_range_other>>.
Init == Constructed({ new(b[1], b[2], <<1, 1, 1>>) : b \in SequenceBlocks })

Next ==
    \/ ValueAt(MaxOps)
    \/ SetValueAt(MaxOps)
    \/ FillWith(MaxOps)
    \/ Wipe(MaxOps)
    \/ Resize(MaxOps)
    \/ ShrinkToFit(MaxOps, SequenceRanges)
    \/ ComputeDistanceField(MaxOps, SequenceRanges)
    \/ BooleanIntersection(MaxOps, SequenceOtherInputs, SequenceRangePairs)
    \/ BooleanUnion(MaxOps, SequenceOtherInputs, SequenceRangePairs)
    \/ BooleanDifference(MaxOps, SequenceOtherInputs, SequenceRangePairs)
    \/ ToMesh(MaxOps, SequenceRanges)

Spec == Init /\ [][Next]_vars

\* The distance transform of a constructed field.
InitDistanceField == Constructed(DistanceFieldInputs)
NextDistanceField == ComputeDistanceField(1, DistanceFieldRanges)
SpecDistanceField == InitDistanceField /\ [][NextDistanceField]_vars

\* One boolean operation of a constructed field with another.
InitBoolean == Constructed(BooleanSelfInputs)
NextBoolean ==
    \/ BooleanIntersection(1, BooleanOtherInputs, BooleanRanges)
    \/ BooleanIntersection(1, {self}, BooleanIdenticalRanges)
    \/ BooleanUnion(1, BooleanOtherInputs, BooleanRanges)
    \/ BooleanDifference(1, BooleanOtherInputs, BooleanRanges)
SpecBoolean == InitBoolean /\ [][NextBoolean]_vars

\* The mesh of a constructed field.
InitMesh == Constructed(MeshInputs)
NextMesh == ToMesh(1, MeshRanges)
SpecMesh == InitMesh /\ [][NextMesh]_vars

\* The field of a mesh and the estimate of its number of voxels.
InitRasterizer == Constructed({ new(<<0, 0, 0>>, <<0, 0, 0>>, <<1, 1, 1>>) })
NextRasterizer ==
    \/ FromMesh(TriangleMeshes, RasterizerVoxelDimensions, RasterizerGrowthOffsets)
    \/ EvaluateVoxelCount(2)
SpecRasterizer == InitRasterizer /\ [][NextRasterizer]_vars

\* The pipeline steps on meshes: the rasterization of a mesh and the mesh of
\* its field, the voxel boolean union and the voxel boolean difference.
InitPipeline == Constructed({ new(<<0, 0, 0>>, <<0, 0, 0>>, <<1, 1, 1>>) })
NextPipeline ==
    \/ FromMesh(PipelineMeshes \cup CubesOfTwoVoxels, {<<1, 1, 1>>}, {0})
    \/ (op.name = "from_mesh" /\ ToMesh(2, {Range00}))
    \/ VoxelBooleanUnion(PipelineMeshes, PipelineVoxelDimensions, PipelineGrowths)
    \/ VoxelBooleanDifference(PipelineMeshes, PipelineVoxelDimensions, PipelineGrowths)
SpecPipeline == InitPipeline /\ [][NextPipeline]_vars

\* The statements of one call of compute_distance_field.
InitDistanceSteps == Constructed(DistanceStepInputs)
NextDistanceSteps ==
    \/ StartDistanceField(DistanceFieldRanges, DistanceStepAnyOrderInputs)
    \/ ScanVoxel
    \/ PopToFindOuter
    \/ FindOuterNeighbor
    \/ PopToComputeDistance
    \/ ComputeDistanceNeighbor
SpecDistanceSteps == InitDistanceSteps /\ [][NextDistanceSteps]_vars

\* The same with the orders of the smaller blocks only.  The call goes on:
\* it is one thread that runs until it returns.
NextDistanceStepsFair ==
    \/ StartDistanceField(DistanceFieldRanges, DistanceStepFewOrdersInputs)
    \/ ScanVoxel
    \/ PopToFindOuter
    \/ FindOuterNeighbor
    \/ PopToComputeDistance
    \/ ComputeDistanceNeighbor
SpecDistanceStepsFair ==
    InitDistanceSteps /\ [][NextDistanceStepsFair]_vars /\ WF_vars(NextDistanceStepsFair)

\* One conversion between a coordinate and an index of the voxel map, in a
\* new block of each of the block starts and dimensions.
InitCoordinates ==
    Constructed({ new(s, d, <<1, 1, 1>>) : s \in ConversionBlockStarts, d \in ConversionDimensions })
NextCoordinates ==
    \/ RelativeToOneDimensional(1)
    \/ OneDimensionalToRelative(1)
    \/ AbsoluteToOneDimensional(1)
SpecCoordinates == InitCoordinates /\ [][NextCoordinates]_vars

(***************************************************************************)
(* Properties of the distance transform (SpecDistanceField)                *)
(***************************************************************************)
RatAbs(q) == <<Abs(q[1]), q[2]>>
Positive(voxel) == voxel # None /\ voxel[1] > 0
Negative(voxel) == voxel # None /\ voxel[1] < 0

Manhattan(a, b) == Abs(a[1] - b[1]) + Abs(a[2] - b[2]) + Abs(a[3] - b[3])

RelativeOf(sf, i) == one_dimensional_to_relative_voxel_coordinate(i, sf.block_dimensions)

\* The seed voxels: the indices of the voxels within the range.
Seeds(sf, value_range) ==
    { i \in Indices(sf) : is_voxel_within_range(sf.voxels[i + 1], value_range) }

NonSeeds(sf, value_range) == Indices(sf) \ Seeds(sf, value_range)

\* The voxels of the outer layer of the block: some axis index 0 or extent - 1.
OuterLayer(sf) ==
    { i \in Indices(sf) :
        \E a \in 1..3 : \/ RelativeOf(sf, i)[a] = 0
                        \/ RelativeOf(sf, i)[a] = sf.block_dimensions[a] - 1 }

\* The indices reached from the set reached by 6-connected steps that stay
\* within the set allowed.
RECURSIVE Connected(_, _, _)
Connected(sf, allowed, reached) ==
    LET further == reached \cup
                      { j \in allowed :
                          \E i \in reached :
                              Manhattan(RelativeOf(sf, i), RelativeOf(sf, j)) = 1 }
    IN  IF further = reached THEN reached ELSE Connected(sf, allowed, further)

\* The non-seed voxels connected through non-seed voxels to a non-seed voxel
\* of the outer layer.
ConnectedToOuterLayer(sf, value_range) ==
    Connected(sf, NonSeeds(sf, value_range),
              NonSeeds(sf, value_range) \cap OuterLayer(sf))

AfterDistanceField ==
    /\ status = "ok"
    /\ op.name = "compute_distance_field"

\* C1: in a grid with at least one voxel within value_range, after
\* compute_distance_field(value_range) the absolute value of every voxel is
\* the minimum over the seeds of the Manhattan distance to the seed.
C1_AbsoluteValueIsManhattanDistance ==
    (AfterDistanceField /\ Seeds(pre, op.volume_value_range) # {}) =>
        /\ Len(self.voxels) = Len(pre.voxels)
        /\ \A i \in Indices(self) :
              /\ self.voxels[i + 1] # None
              /\ RatAbs(self.voxels[i + 1]) =
                     Int2Rat(SetMin({ Manhattan(RelativeOf(pre, i), RelativeOf(pre, s)) :
                                        s \in Seeds(pre, op.volume_value_range) }))

\* A single seed in the middle of a block of 3 x 3 x 3: the corners are at
\* distance 3.
C1_Witness ==
    /\ AfterDistanceField
    /\ Cardinality(Seeds(pre, op.volume_value_range)) = 1
    /\ \E i \in Indices(self) : RatAbs(self.voxels[i + 1]) = Int2Rat(3)

\* C2 (as amended): in a grid with at least one voxel within value_range,
\* after compute_distance_field(value_range) a voxel that was not a seed is
\* positive if and only if it is connected through non-seed voxels to a
\* non-seed voxel of the outer layer, and negative otherwise; a grid with no
\* voxel within value_range is left as it was.
C2_SignOfSeededGrid ==
    AfterDistanceField =>
        IF Seeds(pre, op.volume_value_range) # {}
        THEN \A i \in NonSeeds(pre, op.volume_value_range) :
                 IF i \in ConnectedToOuterLayer(pre, op.volume_value_range)
                 THEN Positive(self.voxels[i + 1])
                 ELSE Negative(self.voxels[i + 1])
        ELSE self = pre

\* An enclosed void voxel gets a negative distance.
C2_Witness ==
    /\ AfterDistanceField
    /\ \E i \in NonSeeds(pre, op.volume_value_range) :
          /\ i \notin ConnectedToOuterLayer(pre, op.volume_value_range)
          /\ Negative(self.voxels[i + 1])

\* C2 as stated, for every grid: a voxel that was not a seed is positive if
\* and only if it is connected to the outer layer through non-seed voxels,
\* every other non-seed voxel that was reached is negative.  Refuted by a
\* grid without seeds: no voxel is reached and none is written.
C2_SignOfEveryGrid ==
    AfterDistanceField =>
        \A i \in NonSeeds(pre, op.volume_value_range) :
            /\ Positive(self.voxels[i + 1])
                   <=> i \in ConnectedToOuterLayer(pre, op.volume_value_range)
            /\ ( /\ i \notin ConnectedToOuterLayer(pre, op.volume_value_range)
                 /\ Seeds(pre, op.volume_value_range) # {} )
                   => Negative(self.voxels[i + 1])

\* C3: every voxel within value_range before compute_distance_field(value_range)
\* is exactly 0 after it, whatever its value was and wherever it lies.
C3_SeedsBecomeZero ==
    AfterDistanceField =>
        \A i \in Seeds(pre, op.volume_value_range) : self.voxels[i + 1] = Zero

\* A seed of value 1 that is not on the outer layer, and one that is.
C3_Witness ==
    /\ AfterDistanceField
    /\ \E i \in Seeds(pre, op.volume_value_range) :
          /\ pre.voxels[i + 1] = One
          /\ i \notin OuterLayer(pre)
          /\ self.voxels[i + 1] = Zero
    /\ \E i \in Seeds(pre, op.volume_value_range) :
          /\ pre.voxels[i + 1] = One
          /\ i \in OuterLayer(pre)

\* C4 (as amended): after compute_distance_field(value_range) on a grid with
\* at least one voxel within value_range every voxel holds a value, a whole
\* number; a grid with no voxel within value_range is left as it was, absent
\* voxels included.
C4_EveryVoxelOfSeededGridPresent ==
    AfterDistanceField =>
        IF Seeds(pre, op.volume_value_range) # {}
        THEN \A i \in Indices(self) :
                 /\ self.voxels[i + 1] # None
                 /\ self.voxels[i + 1][2] = 1
        ELSE self = pre

\* A voxel that was absent holds a value after the transform.
C4_Witness ==
    /\ AfterDistanceField
    /\ Seeds(pre, op.volume_value_range) # {}
    /\ \E i \in Indices(self) :
          /\ pre.voxels[i + 1] = None
          /\ self.voxels[i + 1] # None

\* C4 as stated, for every grid and every value_range: after
\* compute_distance_field every voxel holds a value.  Refuted by a grid
\* without seeds whose voxels are absent.
C4_EveryVoxelPresent ==
    AfterDistanceField =>
        \A i \in Indices(self) : self.voxels[i + 1] # None

(***************************************************************************)
(* Properties of the grid container (Spec)                                 *)
(***************************************************************************)
\* C5: in every state reachable by new, set_value_at, fill_with, wipe,
\* resize, shrink_to_fit, compute_distance_field, boolean_intersection,
\* boolean_union and boolean_difference the length of the voxel storage is
\* the product of the three extents.
C5_StorageLengthIsProductOfExtents ==
    Len(self.voxels) = Product(self.block_dimensions)

\* A field that was emptied and then resized to a block of two voxels.
C5_Witness ==
    /\ status = "ok"
    /\ nops >= 2
    /\ op.name = "resize"
    /\ Len(pre.voxels) = 0
    /\ Len(self.voxels) = 2

(***************************************************************************)
(* Properties of the boolean combinator (SpecBoolean)                      *)
(***************************************************************************)
\* The absolute coordinates of the voxels of a field.
Coordinates(sf) ==
    { one_dimensional_to_absolute_voxel_coordinate(i, sf.block_start, sf.block_dimensions) :
        i \in Indices(sf) }

\* The absolute coordinates at which a field holds a value within the range.
Volume(sf, value_range) ==
    { c \in Coordinates(sf) :
        is_value_at_absolute_voxel_coordinate_within_range(sf, c, value_range) }

\* The box of a field is the tight box around the coordinates S; the field
\* is wiped if there are none.
IsTightBoxAround(sf, S) ==
    IF S = {}
    THEN /\ sf.block_dimensions = <<0, 0, 0>>
         /\ sf.voxels = <<>>
    ELSE /\ sf.block_start = << SetMin({c[1] : c \in S}), SetMin({c[2] : c \in S}),
                                SetMin({c[3] : c \in S}) >>
         /\ sf.block_dimensions =
                << SetMax({c[1] : c \in S}) - SetMin({c[1] : c \in S}) + 1,
                   SetMax({c[2] : c \in S}) - SetMin({c[2] : c \in S}) + 1,
                   SetMax({c[3] : c \in S}) - SetMin({c[3] : c \in S}) + 1 >>
         /\ Len(sf.voxels) = Product(sf.block_dimensions)

\* The tight boxes around the coordinates A and B have a voxel in common.
TightBoxesOverlap(A, B) ==
    /\ A # {}
    /\ B # {}
    /\ \A a \in 1..3 :
          Max2(SetMin({c[a] : c \in A}), SetMin({c[a] : c \in B}))
              <= Min2(SetMax({c[a] : c \in A}), SetMax({c[a] : c \in B}))

\* The same values at the coordinates S in two fields.
SameValuesAt(S, sf, tf) ==
    \A c \in S : value_at_absolute_voxel_coordinate(sf, c)
                     = value_at_absolute_voxel_coordinate(tf, c)

IsWiped(sf) ==
    /\ sf.block_dimensions = <<0, 0, 0>>
    /\ sf.voxels = <<>>

BoundedInclusive(value_range) ==
    /\ value_range.start.kind = "Included"
    /\ value_range.end.kind = "Included"

NonEmptyRange(value_range) == RatLe(value_range.start.v, value_range.end.v)

AfterBoolean(name) ==
    /\ status = "ok"
    /\ op.name = name

SameVoxelSize == pre.voxel_dimensions = op.other.voxel_dimensions

\* C6: for two grids of the same voxel size, after
\* self.boolean_intersection(range_a, other, range_b) a coordinate holds a
\* value within range_a in self if and only if self held one there before and
\* other holds a value within range_b there; those voxels keep the values of
\* self, and the box of self is the tight box around them.
C6_IntersectionOfEqualVoxelSize ==
    (AfterBoolean("boolean_intersection") /\ SameVoxelSize) =>
        LET both == Volume(pre, op.volume_value_range_self)
                        \cap Volume(op.other, op.volume_value_range_other)
        IN  /\ Volume(self, op.volume_value_range_self) = both
            /\ SameValuesAt(both, self, pre)
            /\ IsTightBoxAround(self, both)

\* An intersection that keeps some voxels of self and removes others.
C6_Witness ==
    /\ AfterBoolean("boolean_intersection")
    /\ SameVoxelSize
    /\ Volume(self, op.volume_value_range_self) # {}
    /\ Volume(self, op.volume_value_range_self) # Volume(pre, op.volume_value_range_self)
    /\ self.block_dimensions # pre.block_dimensions

\* C7 (as amended): for two grids of the same voxel size and bounded
\* inclusive ranges that are not empty (start <= end), after
\* self.boolean_union(range_a, other, range_b) where other has a voxel within
\* range_b, a coordinate holds a value within range_a in self if and only if
\* self held one there before or other holds a value within range_b there;
\* the voxels that were within range_a keep their value, and the box of self
\* is the tight box around the result.
C7_UnionOfNonEmptyRanges ==
    ( /\ AfterBoolean("boolean_union")
      /\ SameVoxelSize
      /\ BoundedInclusive(op.volume_value_range_self)
      /\ BoundedInclusive(op.volume_value_range_other)
      /\ NonEmptyRange(op.volume_value_range_self)
      /\ NonEmptyRange(op.volume_value_range_other)
      /\ Volume(op.other, op.volume_value_range_other) # {} ) =>
        LET either == Volume(pre, op.volume_value_range_self)
                          \cup Volume(op.other, op.volume_value_range_other)
        IN  /\ Volume(self, op.volume_value_range_self) = either
            /\ SameValuesAt(Volume(pre, op.volume_value_range_self), self, pre)
            /\ IsTightBoxAround(self, either)

\* A union that keeps voxels of self and takes a remapped value from other.
C7_Witness ==
    /\ AfterBoolean("boolean_union")
    /\ SameVoxelSize
    /\ NonEmptyRange(op.volume_value_range_self)
    /\ Volume(pre, op.volume_value_range_self) # {}
    /\ \E c \in Volume(op.other, op.volume_value_range_other) :
          /\ c \notin Volume(pre, op.volume_value_range_self)
          /\ c \in Volume(self, op.volume_value_range_self)
          /\ value_at_absolute_voxel_coordinate(self, c)
                 # value_at_absolute_voxel_coordinate(op.other, c)

\* C7 as stated, for all bounded inclusive ranges.  Refuted by an empty
\* range_a such as 2.0..=1.0: the value remapped into it is not within it.
C7_UnionOfBoundedInclusiveRanges ==
    ( /\ AfterBoolean("boolean_union")
      /\ SameVoxelSize
      /\ BoundedInclusive(op.volume_value_range_self)
      /\ BoundedInclusive(op.volume_value_range_other)
      /\ Volume(op.other, op.volume_value_range_other) # {} ) =>
        LET either == Volume(pre, op.volume_value_range_self)
                          \cup Volume(op.other, op.volume_value_range_other)
        IN  /\ Volume(self, op.volume_value_range_self) = either
            /\ SameValuesAt(Volume(pre, op.volume_value_range_self), self, pre)
            /\ IsTightBoxAround(self, either)

C9_IntersectionWipes ==
    ( /\ AfterBoolean("boolean_intersection")
      /\ ~TightBoxesOverlap(Volume(pre, op.volume_value_range_self),
                            Volume(op.other, op.volume_value_range_other)) ) =>
        IsWiped(self)

C11_IntersectionWithCopyKeepsVolume ==
    ( /\ AfterBoolean("boolean_intersection")
      /\ op.other = pre
      /\ op.volume_value_range_other = op.volume_value_range_self ) =>
        LET shrunk == shrink_to_fit(pre, op.volume_value_range_self)
        IN  /\ self.block_start = shrunk.block_start
            /\ self.block_dimensions = shrunk.block_dimensions
            /\ Len(self.voxels) = Len(shrunk.voxels)
            /\ \A c \in Coordinates(shrunk) :
                  value_at_absolute_voxel_coordinate(self, c)
                      = IF c \in Volume(pre, op.volume_value_range_self)
                        THEN value_at_absolute_voxel_coordinate(pre, c)
                        ELSE None

\* An intersection with a copy that keeps voxels within r and clears a voxel
\* of A that holds a value outside r.
C11_Witness ==
    /\ AfterBoolean("boolean_intersection")
    /\ op.other = pre
    /\ op.volume_value_range_other = op.volume_value_range_self
    /\ Volume(self, op.volume_value_range_self) # {}
    /\ \E c \in Coordinates(self) :
          /\ value_at_absolute_voxel_coordinate(pre, c) # None
          /\ value_at_absolute_voxel_coordinate(self, c) = None

\* C11 as stated: the result is A shrunk to fit r, cell by cell.  Refuted by
\* a grid with a value outside r inside the tight box of its volume:
\* shrink_to_fit keeps that value, the intersection clears it.
C11_IntersectionWithCopyIsShrunkCopy ==
    ( /\ AfterBoolean("boolean_intersection")
      /\ op.other = pre
      /\ op.volume_value_range_other = op.volume_value_range_self ) =>
        self = shrink_to_fit(pre, op.volume_value_range_self)

\* A range without a bound at either end.
UnboundedOnBothEnds(value_range) ==
    /\ value_range.start.kind = "Unbounded"
    /\ value_range.end.kind = "Unbounded"

\* boolean_union has to take a value from other: other has a volume, and
\* some cell of the block self is resized to is not within range_a while the
\* voxel of other it is resampled from is within range_b.
UnionTakesFromOther(sf, volume_value_range_self, other, volume_value_range_other) ==
    /\ Volume(other, volume_value_range_other) # {}
    /\ \E i \in Indices(resize_to_voxel_space_bounding_box(
                       sf,
                       union_bounding_box(
                           volume_bounding_box(sf, volume_value_range_self),
                           volume_bounding_box(other, volume_value_range_other)))) :
          union_takes(resize_to_voxel_space_bounding_box(
                          sf,
                          union_bounding_box(
                              volume_bounding_box(sf, volume_value_range_self),
                              volume_bounding_box(other, volume_value_range_other))),
                      i, volume_value_range_self, other, volume_value_range_other)

\* C12: when boolean_union has to take a value from other and range_a or
\* range_b is unbounded on both ends, the operation panics instead of
\* assigning a value.  Refuted by two identical ranges that are unbounded on
\* both ends: remap returns the value unchanged and the union assigns it.
C12_UnionOfUnboundedRangePanics ==
    ( /\ op.name = "boolean_union"
      /\ \/ UnboundedOnBothEnds(op.volume_value_range_self)
         \/ UnboundedOnBothEnds(op.volume_value_range_other)
      /\ UnionTakesFromOther(pre, op.volume_value_range_self,
                             op.other, op.volume_value_range_other) ) =>
        status = "panicked"

(***************************************************************************)
(* Properties of resize (Spec)                                             *)
(***************************************************************************)
\* The absolute coordinates of the half-open box [block_start, block_start +
\* block_dimensions).
BoxCoordinates(block_start, block_dimensions) ==
    { <<x, y, z>> : x \in block_start[1] .. (block_start[1] + block_dimensions[1] - 1),
                    y \in block_start[2] .. (block_start[2] + block_dimensions[2] - 1),
                    z \in block_start[3] .. (block_start[3] + block_dimensions[3] - 1) }

AfterResize ==
    /\ status = "ok"
    /\ op.name = "resize"

\* C13: after resize(new_origin, new_extents) with extents that are not all
\* zero, value_at of every absolute coordinate inside the new box is what
\* value_at of that coordinate was before: the old value inside the old box,
\* absent outside of it.
C13_ResizeKeepsValues ==
    (AfterResize /\ op.resized_block_dimensions # <<0, 0, 0>>) =>
        \A c \in BoxCoordinates(op.resized_block_start, op.resized_block_dimensions) :
            value_at_absolute_voxel_coordinate(self, c)
                = IF c \in BoxCoordinates(pre.block_start, pre.block_dimensions)
                  THEN value_at_absolute_voxel_coordinate(pre, c)
                  ELSE None

\* A resize to a box that has a coordinate with a value of the old box and
\* a coordinate outside of the old box.
C13_Witness ==
    /\ AfterResize
    /\ \E c \in BoxCoordinates(op.resized_block_start, op.resized_block_dimensions) :
          /\ c \in BoxCoordinates(pre.block_start, pre.block_dimensions)
          /\ value_at_absolute_voxel_coordinate(pre, c) # None
          /\ value_at_absolute_voxel_coordinate(self, c) # None
    /\ \E c \in BoxCoordinates(op.resized_block_start, op.resized_block_dimensions) :
          c \notin BoxCoordinates(pre.block_start, pre.block_dimensions)
    /\ \E c \in BoxCoordinates(pre.block_start, pre.block_dimensions) :
          c \notin BoxCoordinates(op.resized_block_start, op.resized_block_dimensions)

\* The grid before the resize is at the requested origin with all-zero extents.
AlreadyEmptyAt(sf, block_start) ==
    /\ sf.block_start = block_start
    /\ sf.block_dimensions = <<0, 0, 0>>

\* C14 (as amended): after resize(new_origin, new_extents) the extents are
\* new_extents and the storage length is their product; the origin is
\* new_origin, except that a resize to all-zero extents of a grid that is
\* not already at new_origin with all-zero extents wipes the grid, which
\* leaves the origin at (0, 0, 0).
C14_ResizeSetsExtentsAndOriginUnlessWiped ==
    AfterResize =>
        /\ self.block_dimensions = op.resized_block_dimensions
        /\ Len(self.voxels) = Product(op.resized_block_dimensions)
        /\ self.block_start =
               IF /\ op.resized_block_dimensions = <<0, 0, 0>>
                  /\ ~AlreadyEmptyAt(pre, op.resized_block_start)
               THEN <<0, 0, 0>>
               ELSE op.resized_block_start

\* A resize of a grid with voxels to all-zero extents at an origin other
\* than (0, 0, 0).
C14_Witness ==
    /\ AfterResize
    /\ op.resized_block_dimensions = <<0, 0, 0>>
    /\ op.resized_block_start # <<0, 0, 0>>
    /\ Len(pre.voxels) > 0
    /\ self.block_start = <<0, 0, 0>>

\* C14 as stated: the origin is new_origin after every resize.  Refuted by
\* a resize to all-zero extents at an origin other than (0, 0, 0).
C14_ResizeSetsOriginAndExtents ==
    AfterResize =>
        /\ self.block_start = op.resized_block_start
        /\ self.block_dimensions = op.resized_block_dimensions
        /\ Len(self.voxels) = Product(op.resized_block_dimensions)

\* C15: resizing a grid to its current origin and extents leaves origin,
\* extents, voxel size and every cell value as they were.
C15_ResizeToCurrentBoxIsNoOp ==
    ( /\ AfterResize
      /\ op.resized_block_start = pre.block_start
      /\ op.resized_block_dimensions = pre.block_dimensions ) =>
        /\ self.block_start = pre.block_start
        /\ self.block_dimensions = pre.block_dimensions
        /\ self.voxel_dimensions = pre.voxel_dimensions
        /\ self.voxels = pre.voxels

\* A resize of a grid that holds values and voids to its current box.
C15_Witness ==
    /\ AfterResize
    /\ op.resized_block_start = pre.block_start
    /\ op.resized_block_dimensions = pre.block_dimensions
    /\ \E i, j \in Indices(pre) : pre.voxels[i + 1] # None /\ pre.voxels[j + 1] = None
    /\ self = pre

(***************************************************************************)
(* Properties of shrink_to_fit (Spec)                                      *)
(***************************************************************************)
AfterShrinkToFit ==
    /\ status = "ok"
    /\ op.name = "shrink_to_fit"

\* The absolute coordinates of the box of a field at which it holds a value
\* within the range.
InRange(sf, value_range) ==
    { c \in BoxCoordinates(sf.block_start, sf.block_dimensions) :
        is_voxel_within_range(value_at_absolute_voxel_coordinate(sf, c), value_range) }

\* C16: after shrink_to_fit(value_range) on a grid with a voxel within
\* value_range the origin is the per axis minimum and the extents are the
\* per axis (maximum - minimum + 1) of the absolute coordinates of the
\* voxels within the range, and each of them keeps its value at its
\* absolute coordinate; a grid without such a voxel is wiped to origin
\* (0, 0, 0), extents (0, 0, 0) and an empty storage.
C16_ShrinkToFitIsTightBox ==
    AfterShrinkToFit =>
        LET volume == InRange(pre, op.volume_value_range)
        IN  IF volume = {}
            THEN /\ self.block_start = <<0, 0, 0>>
                 /\ self.block_dimensions = <<0, 0, 0>>
                 /\ self.voxels = <<>>
            ELSE /\ \A a \in 1..3 :
                      /\ self.block_start[a] = SetMin({c[a] : c \in volume})
                      /\ self.block_dimensions[a] =
                             SetMax({c[a] : c \in volume}) - SetMin({c[a] : c \in volume}) + 1
                 /\ \A c \in volume :
                      value_at_absolute_voxel_coordinate(self, c)
                          = value_at_absolute_voxel_coordinate(pre, c)

\* A shrink_to_fit that moves the origin and reduces the extents to a box
\* that still holds a voxel within the range.
C16_Witness ==
    /\ AfterShrinkToFit
    /\ InRange(pre, op.volume_value_range) # {}
    /\ self.block_start # pre.block_start
    /\ self.block_dimensions # pre.block_dimensions
    /\ InRange(self, op.volume_value_range) = InRange(pre, op.volume_value_range)

\* C17: shrink_to_fit(range) of a grid that shrink_to_fit(range) has shrunk
\* leaves origin, extents and cell values as they are.
C17_ShrinkToFitIsIdempotent ==
    AfterShrinkToFit =>
        shrink_to_fit(self, op.volume_value_range) = self

\* A second shrink_to_fit with the same range, of a grid that the first one
\* has reduced to a box with a voxel within the range.
C17_Witness ==
    /\ AfterShrinkToFit
    /\ nops >= 3
    /\ self = pre
    /\ pre = shrink_to_fit(pre, op.volume_value_range)
    /\ InRange(self, op.volume_value_range) # {}
    /\ Len(self.voxels) = 1

(***************************************************************************)
(* Properties of reading and writing a voxel (Spec)                        *)
(***************************************************************************)
\* The cell of the voxel map that stores the coordinate c of the box of sf.
StoredCell(sf, c) ==
    sf.voxels[ (c[3] - sf.block_start[3]) * sf.block_dimensions[1] * sf.block_dimensions[2]
               + (c[2] - sf.block_start[2]) * sf.block_dimensions[1]
               + (c[1] - sf.block_start[1]) + 1 ]

\* C18: value_at never panics; for every reachable grid (a wiped grid and
\* grids with a zero extent on some axis among them) and every absolute
\* coordinate it returns None for a coordinate outside the half-open box
\* [block_start, block_start + block_dimensions) and the stored cell
\* otherwise.
C18_ValueAtReadsBoxOrNone ==
    (op.name = "value_at_absolute_voxel_coordinate") =>
        /\ status = "ok"
        /\ op.result =
               IF op.absolute_coordinate
                      \in BoxCoordinates(self.block_start, self.block_dimensions)
               THEN StoredCell(self, op.absolute_coordinate)
               ELSE None

\* A read of a value from a block that does not start at (0, 0, 0) and that
\* holds something else in another voxel.
C18_Witness ==
    /\ op.name = "value_at_absolute_voxel_coordinate"
    /\ status = "ok"
    /\ self.block_start # <<0, 0, 0>>
    /\ op.result # None
    /\ \E i \in Indices(self) : self.voxels[i + 1] # op.result

\* C19: set_value_at returns exactly when the absolute coordinate is inside
\* the box of the grid and panics otherwise; after it returned, value_at of
\* that coordinate is the written value, and origin, extents and every other
\* cell are as before.
C19_SetValueAtWritesOneCell ==
    (op.name = "set_value_at_absolute_voxel_coordinate") =>
        /\ (status = "ok") <=>
               (op.absolute_coordinate
                    \in BoxCoordinates(pre.block_start, pre.block_dimensions))
        /\ (status = "panicked") <=>
               (op.absolute_coordinate
                    \notin BoxCoordinates(pre.block_start, pre.block_dimensions))
        /\ (status = "ok") =>
               /\ value_at_absolute_voxel_coordinate(self, op.absolute_coordinate) = op.value
               /\ self.block_start = pre.block_start
               /\ self.block_dimensions = pre.block_dimensions
               /\ Len(self.voxels) = Len(pre.voxels)
               /\ \A c \in BoxCoordinates(pre.block_start, pre.block_dimensions)
                              \ {op.absolute_coordinate} :
                      value_at_absolute_voxel_coordinate(self, c)
                          = value_at_absolute_voxel_coordinate(pre, c)

\* A write that changes one voxel of a block of which another voxel holds
\* a different value.
C19_Witness ==
    /\ op.name = "set_value_at_absolute_voxel_coordinate"
    /\ status = "ok"
    /\ value_at_absolute_voxel_coordinate(pre, op.absolute_coordinate) # op.value
    /\ op.value # None
    /\ \E c \in BoxCoordinates(pre.block_start, pre.block_dimensions)
                  \ {op.absolute_coordinate} :
          /\ value_at_absolute_voxel_coordinate(self, c) # None
          /\ value_at_absolute_voxel_coordinate(self, c) # op.value

(***************************************************************************)
(* Properties of the coordinate conversions (SpecCoordinates)              *)
(***************************************************************************)
\* A relative coordinate that is in range of the block dimensions.
InRangeOf(relative_coordinate, block_dimensions) ==
    \A a \in 1..3 : /\ 0 <= relative_coordinate[a]
                     /\ relative_coordinate[a] < block_dimensions[a]

\* C20: for block dimensions with non-zero extents, a relative coordinate r
\* in range converts to an index that converts back to r, and an index
\* below the product of the extents converts to a relative coordinate that
\* converts back to the index.
C20_RelativeAndOneDimensionalRoundTrip ==
    /\ ( /\ op.name = "relative_voxel_to_one_dimensional_coordinate"
         /\ InRangeOf(op.relative_coordinate, self.block_dimensions) ) =>
           /\ op.result # NoIndex
           /\ one_dimensional_to_relative_voxel_coordinate(op.result, self.block_dimensions)
                  = op.relative_coordinate
    /\ (op.name = "one_dimensional_to_relative_voxel_coordinate") =>
           /\ op.one_dimensional_coordinate < Product(self.block_dimensions)
           /\ relative_voxel_to_one_dimensional_coordinate(op.result, self.block_dimensions)
                  = op.one_dimensional_coordinate

\* A conversion of a relative coordinate away from the low faces of a block
\* with three different extents.
C20_Witness ==
    /\ op.name = "relative_voxel_to_one_dimensional_coordinate"
    /\ self.block_dimensions = <<2, 3, 4>>
    /\ op.relative_coordinate = <<1, 2, 3>>
    /\ op.result = 23
    /\ one_dimensional_to_relative_voxel_coordinate(op.result, self.block_dimensions)
           = <<1, 2, 3>>

\* C21: the index lookup for an absolute coordinate returns no index if and
\* only if, after subtracting the block start, some axis is outside
\* [0, extent); otherwise it returns z * extent_x * extent_y + y * extent_x
\* + x of the coordinate relative to the block start, which is below the
\* length of the voxel map.
C21_AbsoluteToOneDimensionalIndex ==
    (op.name = "absolute_voxel_to_one_dimensional_coordinate") =>
        LET r == VecSub(op.absolute_coordinate, self.block_start)
            d == self.block_dimensions
        IN  /\ (op.result = NoIndex) <=>
                   (\E a \in 1..3 : r[a] < 0 \/ r[a] >= d[a])
            /\ (op.result # NoIndex) =>
                   /\ op.result = r[3] * d[1] * d[2] + r[2] * d[1] + r[1]
                   /\ op.result < Len(self.voxels)

\* A lookup in a block that does not start at the origin, of the voxel
\* farthest from the block start.
C21_Witness ==
    /\ op.name = "absolute_voxel_to_one_dimensional_coordinate"
    /\ self.block_start = <<2, -1, -3>>
    /\ self.block_dimensions = <<2, 3, 4>>
    /\ op.absolute_coordinate = <<3, 1, 0>>
    /\ op.result = 23
    /\ Len(self.voxels) = 24

(***************************************************************************)
(* Properties of the union of empty operands (SpecBoolean)                 *)
(***************************************************************************)
\* C29: boolean_union wipes self (extents (0,0,0), empty voxel map) when
\* self has no voxel within range_a and other has no voxel within range_b.
\* Refuted by a self that is not wiped before the call: the early return
\* for an empty other leaves it as it was.
C29_UnionOfEmptyOperandsWipes ==
    ( /\ AfterBoolean("boolean_union")
      /\ Volume(pre, op.volume_value_range_self) = {}
      /\ Volume(op.other, op.volume_value_range_other) = {} ) =>
        IsWiped(self)

(***************************************************************************)
(* Properties of the mesher (Spec, SpecMesh)                               *)
(***************************************************************************)
AfterToMesh ==
    /\ status = "ok"
    /\ op.name = "to_mesh"

HasZeroExtent(sf) == \E a \in 1..3 : sf.block_dimensions[a] = 0

\* C22: to_mesh of a field with a zero extent (a wiped field among them)
\* returns no mesh without making any wall and without calling weld, so the
\* missing mesh is never a failure of the weld.
C22_ToMeshOfZeroExtentIsNothingToMaterialize ==
    (AfterToMesh /\ HasZeroExtent(self)) =>
        /\ op.result.mesh = None
        /\ op.result.plane_meshes = <<>>
        /\ ~op.result.welded

\* to_mesh of a wiped field, at the end of a sequence of operations.
C22_Witness ==
    /\ AfterToMesh
    /\ IsWiped(self)
    /\ nops >= 3
    /\ op.result.mesh = None
    /\ ~op.result.welded

\* The six axis directions.
AxisDirections ==
    { <<1, 0, 0>>, <<-1, 0, 0>>, <<0, 1, 0>>, <<0, -1, 0>>, <<0, 0, 1>>, <<0, 0, -1>> }

\* The pairs of a voxel within the range and a direction in which its
\* neighbor is out of the block, absent or not within the range.
BoundaryWalls(sf, value_range) ==
    { w \in Volume(sf, value_range) \X AxisDirections :
        VecAdd(w[1], w[2]) \notin Volume(sf, value_range) }

\* The mesh is a rectangle of four vertices at the corners of the side of
\* voxel v towards direction d.
IsSideOfVoxel(mesh, sf, v, d) ==
    /\ Len(mesh.vertices) = 4
    /\ Cardinality({ mesh.vertices[i] : i \in 1..4 }) = 4
    /\ Len(mesh.faces) = 2
    /\ \A i \in 1..4 : \A a \in 1..3 :
          LET from_center == RatSub(mesh.vertices[i][a],
                                    Int2Rat(v[a] * sf.voxel_dimensions[a]))
          IN  IF d[a] # 0
              THEN from_center = Rat(d[a] * sf.voxel_dimensions[a], 2)
              ELSE RatAbs(from_center) = Rat(sf.voxel_dimensions[a], 2)

\* C23: for a field with non-zero extents, to_mesh makes exactly one wall
\* for every pair of a voxel v within the range and an axis direction d such
\* that the neighbor of v in direction d is out of the block, absent or not
\* within the range, and no other wall: none between two voxels within the
\* range and none for a voxel that is not within the range.
C23_ToMeshMakesOneWallPerBoundarySide ==
    (AfterToMesh /\ ~HasZeroExtent(self)) =>
        LET walls == op.result.plane_meshes
            boundary == BoundaryWalls(self, op.volume_value_range)
        IN  /\ Len(walls) = Cardinality(boundary)
            /\ { <<walls[i].absolute_coordinate, walls[i].direction_to_neighbor>> :
                   i \in 1 .. Len(walls) } = boundary
            /\ \A i \in 1 .. Len(walls) :
                  IsSideOfVoxel(walls[i].mesh, self, walls[i].absolute_coordinate,
                                walls[i].direction_to_neighbor)

\* A field with two adjacent voxels within the range along z, a voxel not
\* within the range and an absent voxel: walls are made, fewer than six for
\* each voxel within the range.
C23_Witness ==
    /\ AfterToMesh
    /\ self.block_dimensions = <<1, 2, 2>>
    /\ self.voxel_dimensions = <<2, 1, 3>>
    /\ \E v \in Volume(self, op.volume_value_range) :
          /\ VecAdd(v, <<0, 0, 1>>) \in Volume(self, op.volume_value_range)
          /\ VecAdd(v, <<0, 1, 0>>) \in Coordinates(self) \ Volume(self, op.volume_value_range)
    /\ \E c \in Coordinates(self) : value_at_absolute_voxel_coordinate(self, c) = None
    /\ \E c \in Coordinates(self) :
          /\ value_at_absolute_voxel_coordinate(self, c) # None
          /\ c \notin Volume(self, op.volume_value_range)
    /\ Len(op.result.plane_meshes) > 0
    /\ Len(op.result.plane_meshes) < 6 * Cardinality(Volume(self, op.volume_value_range))

(***************************************************************************)
(* Properties of the rasterizer (SpecRasterizer)                           *)
(***************************************************************************)
\* C25: evaluate_voxel_count of the bounding box of a mesh and a voxel size
\* is the number of voxels of the field that from_mesh allocates for the
\* mesh with growth offset 0.  Refuted by a box whose corners are not at
\* voxel centers: the estimate rounds both corners to the nearest voxel,
\* from_cartesian_bounding_box takes the floor of one and the ceiling of the
\* other.
C25_VoxelCountIsAllocatedCount ==
    ( /\ op.name = "evaluate_voxel_count"
      /\ op.growth_offset = 0 ) =>
        op.result = Len(self.voxels)

\* C26: from_mesh never writes out of the field it allocated: every sampled
\* point of every triangle converts to a voxel inside the allocated block,
\* so that set_value_at_absolute_voxel_coordinate does not panic.
C26_FromMeshWritesWithinAllocatedBlock ==
    (op.name = "from_mesh") =>
        /\ status = "ok"
        /\ MeshVoxels(op.mesh, op.voxel_dimensions) \subseteq Coordinates(self)
        /\ Volume(self, Range00) = MeshVoxels(op.mesh, op.voxel_dimensions)

\* A triangle with a sample that rounds up to the last layer of voxels of
\* the block along x and one that rounds down to the first layer, without
\* growth.
C26_Witness ==
    /\ op.name = "from_mesh"
    /\ status = "ok"
    /\ op.growth_offset = 0
    /\ op.voxel_dimensions = <<2, 1, 3>>
    /\ Cardinality(Volume(self, Range00)) > 3
    /\ \E c \in Volume(self, Range00) :
          c[1] = self.block_start[1] + self.block_dimensions[1] - 1
    /\ \E c \in Volume(self, Range00) : c[1] = self.block_start[1]
    /\ self.block_dimensions[1] = 3

(***************************************************************************)
(* Properties of the pipeline steps (SpecPipeline)                         *)
(***************************************************************************)
\* The edges of a face, without direction.
FaceEdges(face) == { {face[1], face[2]}, {face[2], face[3]}, {face[3], face[1]} }

\* A mesh is closed: every edge of a face is an edge of exactly two faces.
IsClosed(mesh) ==
    \A f \in 1 .. Len(mesh.faces) :
        \A edge \in FaceEdges(mesh.faces[f]) :
            Cardinality({ g \in 1 .. Len(mesh.faces) : edge \in FaceEdges(mesh.faces[g]) }) = 2

\* from_mesh has made the field of a cube that spans two voxels per axis,
\* with voxel size (1, 1, 1), value 0 on the surface and no growth.
AfterFromMeshOfCube ==
    /\ status = "ok"
    /\ op.name = "from_mesh"
    /\ op.mesh \in CubesOfTwoVoxels
    /\ op.voxel_dimensions = <<1, 1, 1>>
    /\ op.value_on_mesh_surface = Zero
    /\ op.growth_offset = 0

\* to_mesh has been called with the range 0.0..=0.0 on such a field.
AfterToMeshOfCube ==
    /\ AfterToMesh
    /\ op.volume_value_range = Range00
    /\ \E cube \in CubesOfTwoVoxels : self = from_mesh(cube, <<1, 1, 1>>, Zero, 0)

\* The block is the two voxels per axis from the corner of the cube on.
CoversCubeOfTwoVoxels(sf) ==
    /\ sf.block_dimensions = <<2, 2, 2>>
    /\ \E cube \in CubesOfTwoVoxels : ToPoint(sf.block_start) = cube.vertices[1]

\* The mesh that to_mesh returned is closed and has the numbers of faces and
\* of vertices.
ReturnedClosedMeshOf(triangles, vertices) ==
    /\ op.result.welded
    /\ op.result.mesh # None
    /\ Len(op.result.mesh.faces) = triangles
    /\ Len(op.result.mesh.vertices) = vertices
    /\ IsClosed(op.result.mesh)

\* C24 as stated: the field of a cube that spans two voxels per axis has
\* two voxels per axis, and its mesh for the range 0.0..=0.0 is closed and
\* has 12 triangles and 8 vertices.
C24_CubeMeshesTo12Triangles ==
    /\ AfterFromMeshOfCube => CoversCubeOfTwoVoxels(self)
    /\ AfterToMeshOfCube => (CoversCubeOfTwoVoxels(self) /\ ReturnedClosedMeshOf(12, 8))

\* C24 (amended): the field of a cube that spans two voxels per axis has two
\* voxels per axis, and its mesh for the range 0.0..=0.0 is closed and has
\* 48 triangles and 26 vertices: two triangles for each of the 24 outer
\* sides of the 8 voxels.
C24_CubeMeshesTo48Triangles ==
    /\ AfterFromMeshOfCube => CoversCubeOfTwoVoxels(self)
    /\ AfterToMeshOfCube => (CoversCubeOfTwoVoxels(self) /\ ReturnedClosedMeshOf(48, 26))

C24_Witness ==
    /\ AfterToMeshOfCube
    /\ nops = 2
    /\ self.block_start = <<-2, 1, -1>>
    /\ self.block_dimensions = <<2, 2, 2>>
    /\ \A i \in Indices(self) : self.voxels[i + 1] = Zero
    /\ Len(op.result.plane_meshes) = 24
    /\ Len(op.result.mesh.faces) = 48
    /\ Len(op.result.mesh.vertices) = 26

\* A voxel boolean step has returned (it has not panicked).
AfterStep ==
    /\ status = "ok"
    /\ op.name \in {"voxel_boolean_union", "voxel_boolean_difference"}

\* The step got as far as its emptiness check: the boolean operation has
\* left self.
ReachedEmptinessCheck ==
    /\ AfterStep
    /\ op.outcome.scalar_field # None

\* The voxels of the field that the step ended with that are in its meshing
\* range.
MeshingVolume == Volume(self, meshing_range(op.call.growth, op.call.fill))

\* C30: a voxel boolean step calls to_mesh only on a field with a voxel in
\* the meshing range, which has no zero extent; a field with no voxel in the
\* meshing range is reported as EmptyScalarField without a call of to_mesh;
\* and when to_mesh returns no mesh it has called weld (the step reports
\* WeldFailed), it has not returned early with nothing to materialize.
C30_ToMeshIsCalledOnNonEmptyFieldOnly ==
    ReachedEmptinessCheck =>
        /\ op.outcome.to_mesh_called =>
            /\ MeshingVolume # {}
            /\ ~HasZeroExtent(self)
            /\ op.outcome.to_mesh.welded
        /\ MeshingVolume = {} =>
            /\ op.outcome.result = "EmptyScalarField"
            /\ ~op.outcome.to_mesh_called
        /\ (op.outcome.to_mesh_called /\ op.outcome.to_mesh.mesh = None) =>
            /\ op.outcome.result = "WeldFailed"
            /\ op.outcome.to_mesh.welded
        /\ op.outcome.result = "Mesh" =>
            /\ op.outcome.to_mesh_called
            /\ op.outcome.to_mesh.mesh # None

\* The difference of a mesh and itself, grown by a voxel: the field is wiped
\* and reported empty, to_mesh is not called.
C30_Witness ==
    /\ ReachedEmptinessCheck
    /\ op.name = "voxel_boolean_difference"
    /\ op.call.mesh1 = op.call.mesh2
    /\ op.call.growth = 1
    /\ op.call.fill
    /\ IsWiped(self)
    /\ op.outcome.result = "EmptyScalarField"
    /\ ~op.outcome.to_mesh_called

\* The union of a cube and a face far from it is meshed.
C30_WitnessMesh ==
    /\ ReachedEmptinessCheck
    /\ op.name = "voxel_boolean_union"
    /\ op.call.mesh1 = CubeMesh(<<0, 0, 0>>, 1)
    /\ op.call.mesh2 = SmallMesh(<<4, 0, 0>>)
    /\ op.call.growth = 0
    /\ self.block_dimensions = <<5, 2, 2>>
    /\ op.outcome.result = "Mesh"
    /\ Len(op.outcome.to_mesh.mesh.faces) = 60

(***************************************************************************)
(* Properties of the loops of the distance transform (SpecDistanceSteps,   *)
(* SpecDistanceStepsFair)                                                  *)
(***************************************************************************)
\* C27: whatever the order in which the scan visits the voxels and in which
\* the neighbor offsets of a popped entry are examined, compute_distance_field
\* ends with the field that it ends with in the order of the code.
C27_DistanceFieldIsIndependentOfOrder ==
    AtStatement("done") => self = compute_distance_field(pre, op.volume_value_range)

\* A call that visited voxels or offsets out of the order of the code has
\* returned; a voxel is two steps from the volume.
C27_Witness ==
    /\ AtStatement("done")
    /\ op.orders = "any"
    /\ op.loop.out_of_order
    /\ Len(self.voxels) = 6
    /\ \E i \in Indices(self) : pre.voxels[i + 1] = None /\ self.voxels[i + 1] = Two
    /\ \E i \in Indices(self) : self.voxels[i + 1] = Zero

\* The number of pushes of a table of pushes per index.
RECURSIVE PushesOf(_, _)
PushesOf(pushed, n) == IF n = 0 THEN 0 ELSE pushed[n] + PushesOf(pushed, n - 1)

\* No index is pushed to a queue twice, and no queue has received more
\* entries than the voxel map has voxels.
PushedAtMostOnce ==
    op.name = "compute_distance_field_steps" =>
        /\ \A i \in Indices(self) :
            /\ op.loop.pushed_to_find_outer[i + 1] <= 1
            /\ op.loop.pushed_to_compute_distance[i + 1] <= 1
        /\ PushesOf(op.loop.pushed_to_find_outer, Len(self.voxels)) <= Len(self.voxels)
        /\ PushesOf(op.loop.pushed_to_compute_distance, Len(self.voxels)) <= Len(self.voxels)
        /\ Len(op.loop.queue_to_find_outer) <= Len(self.voxels)
        /\ Len(op.loop.queue_to_compute_distance) <= Len(self.voxels)

\* C28: compute_distance_field terminates: no index is pushed to a queue
\* twice, so no queue receives more entries than the field has voxels, and a
\* call that has started gets to the end with both queues drained.
C28_DistanceFieldTerminates ==
    /\ []PushedAtMostOnce
    /\ (op.name = "compute_distance_field_steps")
           ~> (/\ AtStatement("done")
               /\ op.loop.queue_to_find_outer = <<>>
               /\ op.loop.queue_to_compute_distance = <<>>)

\* The call has ended for a block of 27 voxels: every index was pushed to
\* the queue of distances once, the void voxels but the enclosed one were
\* pushed to the queue of outer voxels once.
C28_Witness ==
    /\ AtStatement("done")
    /\ Len(self.voxels) = 27
    /\ \A i \in Indices(self) : op.loop.pushed_to_compute_distance[i + 1] = 1
    /\ PushesOf(op.loop.pushed_to_find_outer, 27) = 20
    /\ op.loop.pushed_to_find_outer[14] = 0
    /\ self.voxels[14] = <<-1, 1>>

====
